---- MODULE Spec2Model ----
(***************************************************************************)
(* A model of the Fritzing importer: the descriptor parser                 *)
(* (src/lib/fzp_parser.py) and the placement pipeline (src/importer.py).   *)
(*                                                                         *)
(* Conventions.                                                            *)
(*  - A Python string is a sequence of one-character strings.              *)
(*  - An optional value is <<>> (None) or <<v>> (the value v).             *)
(*  - A float is modelled by an exact integer.                             *)
(***************************************************************************)
EXTENDS Integers, Sequences, FiniteSets, TLC

\* pc, arg, ret: the call in progress, its arguments and what it returned.
\* fs: the file system (files, archives, scratch directories).
\* scene: the host's scene (its objects, the active object, the selection).
\* reports: what the import operator reported to the user.
VARIABLES pc, arg, ret, fs, scene, reports

vars == <<pc, arg, ret, fs, scene, reports>>

\* The parser functions touch neither the file system nor the scene.
NoWorld == fs = <<>> /\ scene = <<>> /\ reports = <<>>

(***************************************************************************)
(* Optional values and Python truthiness.                                  *)
(***************************************************************************)
None == <<>>

Some(v) == <<v>>

IsNone(o) == o = <<>>

\* Python truthiness of an optional string: None and '' are falsy.
Truthy(o) == o # <<>> /\ o[1] # <<>>

\* Python "a or b" on optional strings.
Or(a, b) == IF Truthy(a) THEN a ELSE b

(***************************************************************************)
(* Strings.                                                                *)
(***************************************************************************)
Digits == {"0", "1", "2", "3", "4", "5", "6", "7", "8", "9"}

DigitVal(c) ==
    CASE c = "0" -> 0 [] c = "1" -> 1 [] c = "2" -> 2 [] c = "3" -> 3
      [] c = "4" -> 4 [] c = "5" -> 5 [] c = "6" -> 6 [] c = "7" -> 7
      [] c = "8" -> 8 [] c = "9" -> 9

RECURSIVE LStrip(_)
LStrip(s) == IF s # <<>> /\ Head(s) = " " THEN LStrip(Tail(s)) ELSE s

RECURSIVE RStrip(_)
RStrip(s) ==
    IF s # <<>> /\ s[Len(s)] = " " THEN RStrip(SubSeq(s, 1, Len(s) - 1)) ELSE s

\* str.strip()
Strip(s) == RStrip(LStrip(s))

\* str.split(sep): the pieces between the separators, empty pieces kept.
RECURSIVE SplitFrom(_, _, _)
SplitFrom(s, sep, cur) ==
    IF s = <<>> THEN <<cur>>
    ELSE IF Head(s) = sep THEN <<cur>> \o SplitFrom(Tail(s), sep, <<>>)
    ELSE SplitFrom(Tail(s), sep, Append(cur, Head(s)))

Split(s, sep) == SplitFrom(s, sep, <<>>)

\* re.split('[,\s]+', s) with the empty pieces dropped: the maximal runs of
\* characters that are neither a comma nor whitespace.
RECURSIVE FieldsFrom(_, _)
FieldsFrom(s, cur) ==
    IF s = <<>> THEN (IF cur = <<>> THEN <<>> ELSE <<cur>>)
    ELSE IF Head(s) \in {",", " "}
         THEN (IF cur = <<>> THEN <<>> ELSE <<cur>>) \o FieldsFrom(Tail(s), <<>>)
         ELSE FieldsFrom(Tail(s), Append(cur, Head(s)))

Fields(s) == FieldsFrom(s, <<>>)

RECURSIVE DecimalVal(_, _)
DecimalVal(s, acc) ==
    IF s = <<>> THEN acc ELSE DecimalVal(Tail(s), 10 * acc + DigitVal(Head(s)))

\* float(s) accepts an optionally signed run of digits with whitespace
\* around it; anything else raises ValueError.
Unsigned(s) == IF s # <<>> /\ Head(s) = "-" THEN Tail(s) ELSE s

CanFloat(s) ==
    LET t == Unsigned(Strip(s))
    IN  t # <<>> /\ \A i \in 1..Len(t) : t[i] \in Digits

Float(s) ==
    LET t == Strip(s)
    IN  IF t # <<>> /\ Head(t) = "-" THEN 0 - DecimalVal(Tail(t), 0)
        ELSE DecimalVal(t, 0)

\* [f(x) for x in seq]
RECURSIVE MapStrip(_)
MapStrip(seq) ==
    IF seq = <<>> THEN <<>> ELSE <<Strip(Head(seq))>> \o MapStrip(Tail(seq))

RECURSIVE DropEmpty(_)
DropEmpty(seq) ==
    IF seq = <<>> THEN <<>>
    ELSE IF Head(seq) = <<>> THEN DropEmpty(Tail(seq))
    ELSE <<Head(seq)>> \o DropEmpty(Tail(seq))

RECURSIVE MapFloat(_)
MapFloat(seq) ==
    IF seq = <<>> THEN <<>> ELSE <<Float(Head(seq))>> \o MapFloat(Tail(seq))

AllCanFloat(seq) == \A i \in 1..Len(seq) : CanFloat(seq[i])

(***************************************************************************)
(* parse_position_string                                                   *)
(***************************************************************************)
\* A variant that insists on exactly three components for an (x, y, z).
parse_position_string_exact3(pos_str) ==
    IF IsNone(pos_str) THEN None
    ELSE LET parts == DropEmpty(MapStrip(Split(pos_str[1], ",")))
         IN  IF ~AllCanFloat(parts) THEN None
             ELSE LET nums == MapFloat(parts)
                  IN  IF Len(nums) = 2 THEN Some(<<nums[1], nums[2], 0>>)
                      ELSE IF Len(nums) = 3
                           THEN Some(<<nums[1], nums[2], nums[3]>>)
                      ELSE None

parse_position_string(pos_str) ==
    IF IsNone(pos_str) THEN None
    ELSE LET parts == DropEmpty(MapStrip(Split(pos_str[1], ",")))
         IN  IF ~AllCanFloat(parts) THEN None   \* float() raised: except branch
             ELSE LET nums == MapFloat(parts)
                  IN  IF Len(nums) = 2 THEN Some(<<nums[1], nums[2], 0>>)
                      ELSE IF Len(nums) >= 3
                           THEN Some(<<nums[1], nums[2], nums[3]>>)
                      ELSE None

(***************************************************************************)
(* Specification of parse_position_string calls.                           *)
(***************************************************************************)
MaxPosLen == 7

PosAlphabet == {"1", ",", " ", "x"}

RECURSIVE StringsUpTo(_, _)
StringsUpTo(alphabet, n) ==
    IF n = 0 THEN {<<>>}
    ELSE LET shorter == StringsUpTo(alphabet, n - 1)
         IN  shorter \cup {Append(s, c) : s \in shorter, c \in alphabet}

PosInputs == {None} \cup {Some(s) : s \in StringsUpTo(PosAlphabet, MaxPosLen)}

PosInit == pc = "call" /\ arg \in PosInputs /\ ret = None /\ NoWorld

ParsePositionString ==
    /\ pc = "call"
    /\ ret' = parse_position_string(arg)
    /\ pc' = "done"
    /\ UNCHANGED <<arg, fs, scene, reports>>

PosNext == ParsePositionString

SpecPos == PosInit /\ [][PosNext]_vars

\* The components of a position string as the claim counts them: the
\* comma-separated pieces, whitespace removed, empty pieces left out.
PosComponents(s) == DropEmpty(MapStrip(Split(s, ",")))

\* C4 (as stated): (x, y, z) for exactly 2 or 3 numeric components, z = 0 for
\* 2 components, and None for every other input, a string of 4 or more
\* numeric components included.
C4_AsStated ==
    pc = "done" =>
        IF ~IsNone(arg) /\ AllCanFloat(PosComponents(arg[1]))
           /\ Len(PosComponents(arg[1])) \in {2, 3}
        THEN LET n == MapFloat(PosComponents(arg[1]))
             IN  ret = Some(<<n[1], n[2], IF Len(n) = 2 THEN 0 ELSE n[3]>>)
        ELSE ret = None

\* C4 (amended): (x, y, z) from the first three components for 2 or more
\* numeric components (z = 0 for exactly 2); None for null, for a non-numeric
\* component and for fewer than 2 components.
C4_Amended ==
    pc = "done" =>
        IF ~IsNone(arg) /\ AllCanFloat(PosComponents(arg[1]))
           /\ Len(PosComponents(arg[1])) >= 2
        THEN LET n == MapFloat(PosComponents(arg[1]))
             IN  ret = Some(<<n[1], n[2], IF Len(n) = 2 THEN 0 ELSE n[3]>>)
        ELSE ret = None

\* A call on a string of four numeric components has returned.
C4_Witness ==
    /\ pc = "done"
    /\ ~IsNone(arg)
    /\ AllCanFloat(PosComponents(arg[1]))
    /\ Len(PosComponents(arg[1])) = 4
    /\ ret # None

(***************************************************************************)
(* parse_transform_string                                                  *)
(*                                                                         *)
(* A transform string is modelled by the sequence of its function calls    *)
(* name(args), in order: an item is [fn, args] with args the text between  *)
(* the parentheses. The pattern (translate|rotate|scale)\s*\(([^)]+)\)     *)
(* matches the items with one of the three names and non-empty args.       *)
(***************************************************************************)
NoTransform == [translate |-> None, rotate |-> None, scale |-> None]

PatternMatches(item) ==
    item.fn \in {"translate", "rotate", "scale"} /\ item.args # <<>>

\* parts = re.split('[,\s]+', args.strip()), empty parts dropped.
TransformParts(item) == Fields(Strip(item.args))

\* Whether the body of the try block raises for this item.
TokenRaises(item) ==
    LET parts == TransformParts(item)
    IN  CASE item.fn = "translate" ->
                \/ (Len(parts) >= 1 /\ ~CanFloat(parts[1]))
                \/ (Len(parts) >= 2 /\ ~CanFloat(parts[2]))
          [] item.fn = "rotate" -> Len(parts) >= 1 /\ ~CanFloat(parts[1])
          [] item.fn = "scale" ->
                \/ (Len(parts) >= 1 /\ ~CanFloat(parts[1]))
                \/ (Len(parts) >= 2 /\ ~CanFloat(parts[2]))

\* A variant in which a rotate adds to the angle found so far.
TransformStep_rotate_adds(acc, item) ==
    IF ~PatternMatches(item) \/ TokenRaises(item) THEN acc
    ELSE LET parts == TransformParts(item)
             a == IF Len(parts) >= 1 THEN Float(parts[1]) ELSE 0
             b == IF Len(parts) >= 2 THEN Float(parts[2]) ELSE 0
         IN  CASE item.fn = "translate" ->
                    [acc EXCEPT !.translate =
                        IF IsNone(acc.translate) THEN Some(<<a, b>>)
                        ELSE Some(<<acc.translate[1][1] + a,
                                    acc.translate[1][2] + b>>)]
               [] item.fn = "rotate" ->
                    [acc EXCEPT !.rotate =
                        IF IsNone(acc.rotate) THEN Some(a)
                        ELSE Some(acc.rotate[1] + a)]
               [] item.fn = "scale" ->
                    LET sx == IF Len(parts) >= 1 THEN Float(parts[1]) ELSE 1
                    IN  [acc EXCEPT !.scale =
                            IF IsNone(acc.scale) THEN Some(sx)
                            ELSE Some(acc.scale[1] * sx)]

\* One iteration of the loop over pattern.finditer(transform_str).
TransformStep(acc, item) ==
    IF ~PatternMatches(item) \/ TokenRaises(item) THEN acc
    ELSE LET parts == TransformParts(item)
             a == IF Len(parts) >= 1 THEN Float(parts[1]) ELSE 0
             b == IF Len(parts) >= 2 THEN Float(parts[2]) ELSE 0
         IN  CASE item.fn = "translate" ->
                    [acc EXCEPT !.translate =
                        IF IsNone(acc.translate) THEN Some(<<a, b>>)
                        ELSE Some(<<acc.translate[1][1] + a,
                                    acc.translate[1][2] + b>>)]
               [] item.fn = "rotate" -> [acc EXCEPT !.rotate = Some(a)]
               [] item.fn = "scale" ->
                    LET sx == IF Len(parts) >= 1 THEN Float(parts[1]) ELSE 1
                    IN  [acc EXCEPT !.scale =
                            IF IsNone(acc.scale) THEN Some(sx)
                            ELSE Some(acc.scale[1] * sx)]

RECURSIVE TransformLoop(_, _)
TransformLoop(acc, items) ==
    IF items = <<>> THEN acc
    ELSE TransformLoop(TransformStep(acc, Head(items)), Tail(items))

parse_transform_string(transform_str) ==
    IF IsNone(transform_str) \/ transform_str[1] = <<>> THEN NoTransform
    ELSE TransformLoop(NoTransform, transform_str[1])

(***************************************************************************)
(* Specification of parse_transform_string calls.                          *)
(***************************************************************************)
MaxTokens == 3

TransformArgs ==
    { <<"2">>, <<"1", ",", "2">>, <<"3", " ", "1", " ", "1">>,
      <<"x">>, <<"1", ",", "x">>, <<" ">> }

TransformItems ==
    [fn : {"translate", "rotate", "scale"}, args : TransformArgs]
        \cup {[fn |-> "matrix", args |-> <<"2">>]}

RECURSIVE SeqsUpTo(_, _)
SeqsUpTo(S, n) ==
    IF n = 0 THEN {<<>>}
    ELSE LET shorter == SeqsUpTo(S, n - 1)
         IN  shorter \cup {Append(s, x) : s \in shorter, x \in S}

TransformInputs ==
    {None} \cup {Some(s) : s \in SeqsUpTo(TransformItems, MaxTokens)}

TransformInit ==
    pc = "call" /\ arg \in TransformInputs /\ ret = None /\ NoWorld

ParseTransformString ==
    /\ pc = "call"
    /\ ret' = parse_transform_string(arg)
    /\ pc' = "done"
    /\ UNCHANGED <<arg, fs, scene, reports>>

TransformNext == ParseTransformString

SpecTransform == TransformInit /\ [][TransformNext]_vars

\* A token as the claim means it: translate(x[,y]), rotate(angle[,cx,cy]) or
\* scale(sx[,sy]) with numeric arguments.
WellFormedToken(item) ==
    LET parts == Fields(item.args)
    IN  /\ \A i \in 1..Len(parts) : CanFloat(parts[i])
        /\ CASE item.fn = "translate" -> Len(parts) \in {1, 2}
             [] item.fn = "rotate" -> Len(parts) \in {1, 3}
             [] item.fn = "scale" -> Len(parts) \in {1, 2}
             [] OTHER -> FALSE

TokenArg(item, i) == Float(Fields(item.args)[i])

\* The tokens of one kind, in order.
RECURSIVE TokensOf(_, _)
TokensOf(items, fn) ==
    IF items = <<>> THEN <<>>
    ELSE (IF Head(items).fn = fn THEN <<Head(items)>> ELSE <<>>)
            \o TokensOf(Tail(items), fn)

RECURSIVE SumArg(_, _)
SumArg(items, i) ==
    IF items = <<>> THEN 0
    ELSE (IF Len(Fields(Head(items).args)) >= i THEN TokenArg(Head(items), i)
          ELSE 0) + SumArg(Tail(items), i)

RECURSIVE ProductFirstArg(_)
ProductFirstArg(items) ==
    IF items = <<>> THEN 1
    ELSE TokenArg(Head(items), 1) * ProductFirstArg(Tail(items))

\* C5: on a string of translate, rotate and scale tokens the result is the
\* component-wise sum of the translates (y = 0 when omitted), the angle of the
\* last rotate and the product of the first arguments of the scales; a kind
\* with no token is None, and an empty or absent string gives three Nones.
C5_TransformComposition ==
    pc = "done" =>
        IF IsNone(arg) \/ arg[1] = <<>> THEN ret = NoTransform
        ELSE (\A i \in 1..Len(arg[1]) : WellFormedToken(arg[1][i])) =>
            LET ts == TokensOf(arg[1], "translate")
                rs == TokensOf(arg[1], "rotate")
                ss == TokensOf(arg[1], "scale")
            IN  /\ ret.translate =
                     (IF ts = <<>> THEN None
                      ELSE Some(<<SumArg(ts, 1), SumArg(ts, 2)>>))
                /\ ret.rotate =
                     (IF rs = <<>> THEN None
                      ELSE Some(TokenArg(rs[Len(rs)], 1)))
                /\ ret.scale =
                     (IF ss = <<>> THEN None ELSE Some(ProductFirstArg(ss)))

\* A call on rotate(2) translate(..) rotate(3 1 1), all well formed, has
\* returned: the second rotate's angle is the result, not 2 and not 2 + 3.
C5_Witness ==
    /\ pc = "done"
    /\ ~IsNone(arg)
    /\ Len(arg[1]) = 3
    /\ \A i \in 1..3 : WellFormedToken(arg[1][i])
    /\ arg[1][1] = [fn |-> "rotate", args |-> <<"2">>]
    /\ arg[1][2].fn = "translate"
    /\ arg[1][3] = [fn |-> "rotate", args |-> <<"3", " ", "1", " ", "1">>]
    /\ ret.rotate = Some(3)
    /\ ret.translate # None
    /\ ret.scale = None

(***************************************************************************)
(* Descriptor documents.                                                   *)
(*                                                                         *)
(* An element is [tag, attrs, children]; attrs maps every attribute name   *)
(* the code reads to an optional string (the transform attribute to an     *)
(* optional transform string). An XML text is modelled by the sequence of  *)
(* its top-level elements: ElementTree accepts exactly one.                *)
(***************************************************************************)
AttrNames ==
    {"id", "name", "index", "label", "file", "url", "x", "y", "z", "cx",
     "cy", "position", "transform", "rotation", "angle"}

NoAttrs == [a \in AttrNames |-> None]

\* The attributes given by the record r, every other attribute absent.
Attrs(r) == [a \in AttrNames |-> IF a \in DOMAIN r THEN Some(r[a]) ELSE None]

El(tag, r, children) == [tag |-> tag, attrs |-> Attrs(r), children |-> children]

El0(tag, children) == [tag |-> tag, attrs |-> NoAttrs, children |-> children]

\* elem.get(name)
Get(e, a) == e.attrs[a]

\* ET.fromstring(text): the root, or ParseError (None) unless the text holds
\* exactly one top-level element.
parse_fzp_xml_string(text) == IF Len(text) = 1 THEN Some(text[1]) ELSE None

\* Every element below e, in document order; e itself is not among them.
RECURSIVE Descendants(_)
RECURSIVE DescendantsOfAll(_)
Descendants(e) == DescendantsOfAll(e.children)

DescendantsOfAll(es) ==
    IF es = <<>> THEN <<>>
    ELSE <<Head(es)>> \o Descendants(Head(es)) \o DescendantsOfAll(Tail(es))

RECURSIVE WithTag(_, _)
WithTag(es, tag) ==
    IF es = <<>> THEN <<>>
    ELSE (IF Head(es).tag = tag THEN <<Head(es)>> ELSE <<>>)
            \o WithTag(Tail(es), tag)

\* e.findall('.//tag')
FindAll(e, tag) == WithTag(Descendants(e), tag)

(***************************************************************************)
(* extract_modules_and_pins_from_fzp_string                                *)
(***************************************************************************)
\* c.tag.lower().endswith('position'), over the tags the model uses.
TagEndsWithPosition(tag) == tag \in {"position", "geoPosition"}

\* The for loop over the children of a pin: each <position> child with
\* truthy x and y fills the coordinates that are still falsy.
RECURSIVE NestedPosition(_, _)
NestedPosition(xyz, kids) ==
    IF kids = <<>> THEN xyz
    ELSE LET c == Head(kids)
             px == Or(Get(c, "x"), Get(c, "cx"))
             py == Or(Get(c, "y"), Get(c, "cy"))
         IN  IF TagEndsWithPosition(c.tag) /\ Truthy(px) /\ Truthy(py)
             THEN NestedPosition(<<Or(xyz[1], px), Or(xyz[2], py),
                                   Or(xyz[3], Get(c, "z"))>>, Tail(kids))
             ELSE NestedPosition(xyz, Tail(kids))

\* (fx, fy, fz) before the transform attribute is applied; None when fx or fy
\* is None.
PinRawPosition(pin_elem) ==
    LET x == Or(Get(pin_elem, "x"), Get(pin_elem, "cx"))
        y == Or(Get(pin_elem, "y"), Get(pin_elem, "cy"))
        z == Get(pin_elem, "z")
        pos_attr == Get(pin_elem, "position")
        \* float() of the components, a ValueError skipping the pin
        Floats(xyz) ==
            IF \/ \E i \in 1..3 : ~IsNone(xyz[i]) /\ ~CanFloat(xyz[i][1])
               \/ IsNone(xyz[1])
               \/ IsNone(xyz[2])
            THEN None
            ELSE Some(<<Float(xyz[1][1]), Float(xyz[2][1]),
                        IF IsNone(xyz[3]) THEN 0 ELSE Float(xyz[3][1])>>)
        Components(pos) ==
            IF ~IsNone(pos) THEN pos
            ELSE Floats(IF IsNone(x) \/ IsNone(y)
                        THEN NestedPosition(<<x, y, z>>, pin_elem.children)
                        ELSE <<x, y, z>>)
    IN  Components(IF (IsNone(x) \/ IsNone(y)) /\ Truthy(pos_attr)
                   THEN parse_position_string(pos_attr) ELSE None)

\* The transform attribute adds its cumulative translate.
PinPosition(pin_elem) ==
    LET transform_str == Get(pin_elem, "transform")
        Translated(raw, trans) ==
            IF IsNone(trans) THEN raw
            ELSE Some(<<raw[1][1] + trans[1][1], raw[1][2] + trans[1][2],
                        raw[1][3]>>)
        Transformed(raw) ==
            IF IsNone(raw) \/ ~Truthy(transform_str) THEN raw
            ELSE Translated(raw,
                            parse_transform_string(transform_str).translate)
    IN  Transformed(PinRawPosition(pin_elem))

\* float(rot) if rot is not None else None, None when float raises.
FloatOrNone(rot) ==
    IF IsNone(rot) \/ ~CanFloat(rot[1]) THEN None ELSE Some(Float(rot[1]))

\* A variant in which a rotate(...) of the transform attribute overrides the
\* rotation, as it does for a module.
PinRotation_transform_overrides(pin_elem) ==
    LET r == FloatOrNone(Or(Get(pin_elem, "rotation"), Get(pin_elem, "angle")))
        transform_str == Get(pin_elem, "transform")
    IN  IF ~Truthy(transform_str) THEN r
        ELSE LET t == parse_transform_string(transform_str)
             IN  IF IsNone(t.rotate) THEN r ELSE t.rotate

PinRotation(pin_elem) ==
    FloatOrNone(Or(Get(pin_elem, "rotation"), Get(pin_elem, "angle")))

\* pid = id or name or index or label or ''
PinId(pin_elem) ==
    LET v == Or(Get(pin_elem, "id"), Or(Get(pin_elem, "name"),
                Or(Get(pin_elem, "index"), Get(pin_elem, "label"))))
    IN  IF Truthy(v) THEN v[1] ELSE <<>>

\* A variant that takes the pin-like elements in document order.
PinLikeElements_document_order(module) ==
    SelectSeq(Descendants(module),
              LAMBDA e : e.tag \in {"pin", "pad", "connector"})

\* module.findall('.//pin') + module.findall('.//pad')
\*     + module.findall('.//connector')
PinLikeElements(module) ==
    FindAll(module, "pin") \o FindAll(module, "pad")
        \o FindAll(module, "connector")

RECURSIVE PinRecords(_)
PinRecords(elems) ==
    IF elems = <<>> THEN <<>>
    ELSE LET e == Head(elems)
             Record(p) ==
                IF IsNone(p) THEN <<>>
                ELSE <<[id |-> PinId(e), position |-> p[1],
                        rotation |-> PinRotation(e)]>>
         IN  Record(PinPosition(e)) \o PinRecords(Tail(elems))

\* mfile = file or url or ''
ModuleFile(module) ==
    LET v == Or(Get(module, "file"), Get(module, "url"))
    IN  IF Truthy(v) THEN v[1] ELSE <<>>

\* mid = id or name or mfile
ModuleId(module) ==
    LET v == Or(Get(module, "id"), Get(module, "name"))
    IN  IF Truthy(v) THEN v[1] ELSE ModuleFile(module)

ModuleRecord(module) ==
    [module_id |-> ModuleId(module), file |-> ModuleFile(module),
     pins |-> PinRecords(PinLikeElements(module))]

RECURSIVE ModuleRecords(_)
ModuleRecords(modules) ==
    IF modules = <<>> THEN <<>>
    ELSE <<ModuleRecord(Head(modules))>> \o ModuleRecords(Tail(modules))

extract_modules_and_pins_from_fzp_string(xml_text) ==
    LET root == parse_fzp_xml_string(xml_text)
    IN  IF IsNone(root) THEN <<>>
        ELSE ModuleRecords(FindAll(root[1], "module"))

(***************************************************************************)
(* Specification of extract_modules_and_pins_from_fzp_string calls.        *)
(***************************************************************************)
\* The nodes of a generated document, and the pin-like children of a module.
MaxNodes == 4

MaxPins == 2

\* The kinds of node of a generated document tree.
NodeKinds == {"moduleA", "moduleB", "part", "pin"}

Node(kind, children) ==
    CASE kind = "moduleA" ->
            El("module", [id |-> <<"M">>, file |-> <<"a">>], children)
      [] kind = "moduleB" ->
            El("module", [name |-> <<"N">>, url |-> <<"u">>], children)
      [] kind = "part" -> El0("part", children)
      [] kind = "pin" ->
            El("pin", [id |-> <<"1">>, x |-> <<"1">>, y |-> <<"2">>], children)

\* The sequences of trees with n nodes in all.
RECURSIVE ForestsOfSize(_)
ForestsOfSize(n) ==
    IF n = 0 THEN {<<>>}
    ELSE UNION { { <<Node(kind, kids)>> \o rest :
                      kind \in NodeKinds,
                      kids \in ForestsOfSize(k - 1),
                      rest \in ForestsOfSize(n - k) } : k \in 1..n }

StructureDocs == UNION { ForestsOfSize(n) : n \in 0..MaxNodes }

\* One module with every combination of id, name, file and url.
OptionalOf(values) == {None} \cup {Some(v) : v \in values}

ModuleAttrDocs ==
    { << El0("part", << [tag |-> "module",
                         attrs |-> [NoAttrs EXCEPT !["id"] = i, !["name"] = n,
                                                    !["file"] = f, !["url"] = u],
                         children |-> <<>>] >>) >> :
        i \in OptionalOf({<<>>, <<"M">>}), n \in OptionalOf({<<"N">>}),
        f \in OptionalOf({<<>>, <<"a">>}), u \in OptionalOf({<<"u">>}) }

Rotate30 == <<[fn |-> "rotate", args |-> <<"3", "0">>]>>

Rotate30Translate12 ==
    << [fn |-> "rotate", args |-> <<"3", "0">>],
       [fn |-> "translate", args |-> <<"1", ",", "2">>] >>

PinElems ==
    { El("pin", [id |-> <<"1">>, x |-> <<"1", "0">>, y |-> <<"2", "0">>], <<>>),
      El("pin", [id |-> <<"2">>,
                 position |-> <<"3", "0", ",", "4", "0">>], <<>>),
      El("pad", [id |-> <<"A">>, x |-> <<"1">>, y |-> <<"2">>,
                 rotation |-> <<"9", "0">>], <<>>),
      El("connector", [name |-> <<"c">>, cx |-> <<"5">>, cy |-> <<"6">>,
                       z |-> <<"7">>, angle |-> <<"4", "5">>], <<>>),
      El("pin", [x |-> <<"1">>, y |-> <<"1">>, rotation |-> <<"9", "0">>,
                 transform |-> Rotate30Translate12], <<>>),
      El("pin", [x |-> <<"1">>, y |-> <<"1">>, transform |-> Rotate30], <<>>),
      El("pin", [x |-> <<"1">>, y |-> <<"1">>, rotation |-> <<"x">>,
                 angle |-> <<"9", "0">>], <<>>),
      El("pin", [x |-> <<"1">>, y |-> <<"1">>, rotation |-> <<>>,
                 angle |-> <<"4", "5">>], <<>>),
      El("pin", [rotation |-> <<"9", "0">>], <<>>),
      El("pin", [index |-> <<"3">>, rotation |-> <<"9", "0">>],
         << El("position", [x |-> <<"7">>, y |-> <<"8">>, z |-> <<"9">>],
               <<>>) >>),
      El("pin", [x |-> <<"x">>, y |-> <<"1">>], <<>>),
      El("pad", [label |-> <<"L">>, x |-> <<>>, y |-> <<"3">>,
                 position |-> <<"4", ",", "5">>], <<>>) }

\* One module with up to MaxPins pin-like children, as the root element or
\* below a root element that is not a module.
PinDocs ==
    LET modules == { El("module", [id |-> <<"M">>,
                                   file |-> <<"r", "/", "p">>], pins) :
                        pins \in SeqsUpTo(PinElems, MaxPins) }
    IN  { <<m>> : m \in modules } \cup { <<El0("part", <<m>>)>> : m \in modules }

ExtractInputs == StructureDocs \cup ModuleAttrDocs \cup PinDocs

ExtractInit == pc = "call" /\ arg \in ExtractInputs /\ ret = <<>> /\ NoWorld

ExtractModulesAndPins ==
    /\ pc = "call"
    /\ ret' = extract_modules_and_pins_from_fzp_string(arg)
    /\ pc' = "done"
    /\ UNCHANGED <<arg, fs, scene, reports>>

ExtractNext == ExtractModulesAndPins

SpecExtract == ExtractInit /\ [][ExtractNext]_vars

\* Every module element of a document, the root included, in document order.
AllModuleElements(root) == WithTag(<<root>> \o Descendants(root), "module")

\* id, else name, else the file reference; file, else url, else empty
\* ("else" as Python's "or": an absent or empty attribute is passed over).
ClaimedFile(m) ==
    IF Truthy(Get(m, "file")) THEN Get(m, "file")[1]
    ELSE IF Truthy(Get(m, "url")) THEN Get(m, "url")[1]
    ELSE <<>>

ClaimedModuleId(m) ==
    IF Truthy(Get(m, "id")) THEN Get(m, "id")[1]
    ELSE IF Truthy(Get(m, "name")) THEN Get(m, "name")[1]
    ELSE ClaimedFile(m)

\* C1: the call on a well-formed descriptor returns exactly one record for
\* every module element, in document order and at any depth, the root element
\* included when it is a module; each record carries module_id (id, else
\* name, else file reference), file (file, else url, else empty) and the
\* module's resolvable pins.
C1_OneRecordPerModule ==
    (pc = "done" /\ Len(arg) = 1) =>
        LET mods == AllModuleElements(arg[1])
        IN  /\ Len(ret) = Len(mods)
            /\ \A j \in 1..Len(mods) :
                  /\ ret[j].module_id = ClaimedModuleId(mods[j])
                  /\ ret[j].file = ClaimedFile(mods[j])
                  /\ ret[j].pins = PinRecords(PinLikeElements(mods[j]))

\* The rotation the claim gives a pin element: the float value of rotation,
\* else of angle ("else" as Python's "or"), None when there is no value or
\* it is not numeric.
ClaimedRotation(e) ==
    LET v == IF Truthy(Get(e, "rotation")) THEN Get(e, "rotation")
             ELSE Get(e, "angle")
    IN  IF IsNone(v) THEN None
        ELSE IF CanFloat(v[1]) THEN Some(Float(v[1]))
        ELSE None

Resolvable(e) == ~IsNone(PinPosition(e))

\* C10: every returned pin record has rotation = the float value of the pin
\* element's rotation attribute (else angle), None when neither is present or
\* the value is not numeric, whatever rotate(...) the transform attribute
\* holds.
C10_PinRotation ==
    pc = "done" =>
        \A j \in 1..Len(ret) :
            LET m == FindAll(arg[1], "module")[j]
                elems == SelectSeq(PinLikeElements(m), Resolvable)
            IN  /\ Len(ret[j].pins) = Len(elems)
                /\ \A i \in 1..Len(elems) :
                      ret[j].pins[i].rotation = ClaimedRotation(elems[i])

\* A pin record has been returned for a pin with rotation="90" and a
\* transform attribute holding rotate(30): its rotation is 90.
C10_Witness ==
    /\ pc = "done"
    /\ Len(ret) = 1
    /\ Len(ret[1].pins) = 2
    /\ LET elems == PinLikeElements(FindAll(arg[1], "module")[1])
       IN  /\ Get(elems[1], "rotation") = Some(<<"9", "0">>)
           /\ Get(elems[1], "transform") = Some(Rotate30Translate12)
           /\ Get(elems[2], "transform") = Some(Rotate30)
    /\ ret[1].pins[1].rotation = Some(90)
    /\ ret[1].pins[1].position = <<2, 3, 0>>
    /\ ret[1].pins[2].rotation = None

\* The pin-like elements of a module that resolve to a position, in
\* document order, and those of them with a given tag.
ResolvablePins(module) ==
    SelectSeq(Descendants(module),
              LAMBDA e : e.tag \in {"pin", "pad", "connector"} /\ Resolvable(e))

Tagged(elems, tag) == SelectSeq(elems, LAMBDA e : e.tag = tag)

\* C16: the pin list of a module holds the records of its resolvable pin
\* elements in document order, then those of its pad elements, then those of
\* its connector elements; an element with unresolvable x and y has no
\* record and the order of the others is unchanged.
C16_PinsGroupedByTag ==
    pc = "done" =>
        \A j \in 1..Len(ret) :
            LET kept == ResolvablePins(FindAll(arg[1], "module")[j])
            IN  ret[j].pins = PinRecords(Tagged(kept, "pin"))
                                \o PinRecords(Tagged(kept, "pad"))
                                \o PinRecords(Tagged(kept, "connector"))

\* A module whose children are a pad and then a pin: the pin's record comes
\* first.
C16_Witness ==
    /\ pc = "done"
    /\ Len(ret) = 1
    /\ LET kids == FindAll(arg[1], "module")[1].children
       IN  /\ Len(kids) = 2
           /\ kids[1].tag = "pad"
           /\ Get(kids[1], "id") = Some(<<"A">>)
           /\ kids[2].tag = "pin"
           /\ Get(kids[2], "id") = Some(<<"2">>)
    /\ Len(ret[1].pins) = 2
    /\ ret[1].pins[1].id = <<"2">>
    /\ ret[1].pins[2].id = <<"A">>

\* A module whose first pin has no position and whose second has one: the
\* list holds the second alone.
C16_WitnessDropped ==
    /\ pc = "done"
    /\ Len(ret) = 1
    /\ LET kids == FindAll(arg[1], "module")[1].children
       IN  /\ Len(kids) = 2
           /\ ~Resolvable(kids[1])
           /\ Resolvable(kids[2])
    /\ Len(ret[1].pins) = 1

(***************************************************************************)
(* Paths and dictionaries.                                                 *)
(***************************************************************************)
UpperChars ==
    <<"A", "B", "C", "D", "E", "F", "G", "H", "I", "J", "K", "L", "M", "N",
      "O", "P", "Q", "R", "S", "T", "U", "V", "W", "X", "Y", "Z">>

LowerChars ==
    <<"a", "b", "c", "d", "e", "f", "g", "h", "i", "j", "k", "l", "m", "n",
      "o", "p", "q", "r", "s", "t", "u", "v", "w", "x", "y", "z">>

LowerChar(c) ==
    IF \E i \in 1..Len(UpperChars) : UpperChars[i] = c
    THEN LowerChars[CHOOSE i \in 1..Len(UpperChars) : UpperChars[i] = c]
    ELSE c

\* str.lower()
Lower(s) == [i \in 1..Len(s) |-> LowerChar(s[i])]

\* str.endswith(suffix)
EndsWith(s, suffix) ==
    /\ Len(s) >= Len(suffix)
    /\ SubSeq(s, Len(s) - Len(suffix) + 1, Len(s)) = suffix

\* The position of the last "/" of a path, 0 when it has none.
LastSlash(p) ==
    IF \E i \in 1..Len(p) : p[i] = "/"
    THEN CHOOSE i \in 1..Len(p) :
            p[i] = "/" /\ \A j \in (i + 1)..Len(p) : p[j] # "/"
    ELSE 0

\* os.path.basename, os.path.dirname, os.path.join
BaseName(p) == SubSeq(p, LastSlash(p) + 1, Len(p))

DirName(p) == SubSeq(p, 1, LastSlash(p) - 1)

Join(a, b) ==
    IF b # <<>> /\ Head(b) = "/" THEN b
    ELSE IF a = <<>> \/ a[Len(a)] = "/" THEN a \o b
    ELSE a \o <<"/">> \o b

\* os.path.splitext(path)[1]: from the last "." of the basename, which is not
\* its first character; '' when there is none.
SplitExt(p) ==
    LET b == BaseName(p)
    IN  IF \E i \in 2..Len(b) : b[i] = "."
        THEN SubSeq(b, CHOOSE i \in 2..Len(b) :
                          b[i] = "." /\ \A j \in (i + 1)..Len(b) : b[j] # ".",
                    Len(b))
        ELSE <<>>

\* A Python dict: a sequence of [k, v] in insertion order.
HasKey(d, k) == \E i \in 1..Len(d) : d[i].k = k

DictGet(d, k) == d[CHOOSE i \in 1..Len(d) : d[i].k = k].v

DictPut(d, k, v) ==
    IF HasKey(d, k)
    THEN [i \in 1..Len(d) |-> IF d[i].k = k THEN [k |-> k, v |-> v] ELSE d[i]]
    ELSE Append(d, [k |-> k, v |-> v])

(***************************************************************************)
(* The file system and the archive operations.                             *)
(*                                                                         *)
(* fs.files: the files, each [path, zip, entries, data]; entries are the   *)
(* [name, data] of a zip archive. The data of a file is what the code can  *)
(* see of it: the number of objects the host creates when it imports it    *)
(* (0 when its import fails), its XML text, and whether it decodes as      *)
(* UTF-8. fs.temp: the scratch directories created, each a dict from file  *)
(* name to data.                                                           *)
(***************************************************************************)
GeomData(n) == [objs |-> n, text |-> <<>>, utf8 |-> TRUE]

XmlData(text) == [objs |-> 0, text |-> text, utf8 |-> TRUE]

BinaryData == [objs |-> 0, text |-> <<>>, utf8 |-> FALSE]

PlainFile(path, data) ==
    [path |-> path, zip |-> FALSE, entries |-> <<>>, data |-> data]

ZipFile(path, entries) ==
    [path |-> path, zip |-> TRUE, entries |-> entries, data |-> BinaryData]

\* os.path.exists(path)
Exists(f, path) == \E i \in 1..Len(f.files) : f.files[i].path = path

FileAt(f, path) ==
    f.files[CHOOSE i \in 1..Len(f.files) : f.files[i].path = path]

\* zipfile.is_zipfile(path): False for a missing file too.
IsZipFile(f, path) == Exists(f, path) /\ FileAt(f, path).zip

\* z.namelist()
RECURSIVE NameList(_)
NameList(entries) ==
    IF entries = <<>> THEN <<>>
    ELSE <<Head(entries).name>> \o NameList(Tail(entries))

\* The outcome of a call: raised is None or the exception's message.
Returned(f, sc, value) ==
    [raised |-> None, fs |-> f, scene |-> sc, value |-> value]

Raised(f, sc, msg) ==
    [raised |-> Some(msg), fs |-> f, scene |-> sc, value |-> <<>>]

list_zip_contents(f, sc, filepath) ==
    IF ~IsZipFile(f, filepath) THEN Raised(f, sc, "Not a zip file")
    ELSE Returned(f, sc, NameList(FileAt(f, filepath).entries))

\* The file extensions the code names.
ExtObj == <<".", "o", "b", "j">>

ExtStl == <<".", "s", "t", "l">>

ExtSvg == <<".", "s", "v", "g">>

ExtFzp == <<".", "f", "z", "p">>

ExtFzpz == <<".", "f", "z", "p", "z">>

\* any(name.lower().endswith(ext) for ext in extensions)
MatchesAny(name, extensions) ==
    \E i \in 1..Len(extensions) : EndsWith(Lower(name), extensions[i])

\* The loop over z.namelist(): each matching entry is written to
\* tempdir/basename(name) and recorded in extracted.
RECURSIVE ExtractLoop(_, _, _, _, _)
ExtractLoop(entries, extensions, tempdir, written, extracted) ==
    IF entries = <<>> THEN [written |-> written, extracted |-> extracted]
    ELSE LET e == Head(entries)
             dest == [dir |-> tempdir, base |-> BaseName(e.name)]
         IN  IF MatchesAny(e.name, extensions)
             THEN ExtractLoop(Tail(entries), extensions, tempdir,
                              DictPut(written, dest.base, e.data),
                              DictPut(extracted, e.name, dest))
             ELSE ExtractLoop(Tail(entries), extensions, tempdir,
                              written, extracted)

\* A variant that makes the scratch directory before it looks at the file.
extract_files_by_extensions_mkdtemp_first(f, sc, filepath, extensions) ==
    LET f1 == [f EXCEPT !.temp = Append(f.temp, <<>>)]
    IN  IF ~IsZipFile(f, filepath) THEN Raised(f1, sc, "Not a zip file")
        ELSE LET r == ExtractLoop(FileAt(f, filepath).entries, extensions,
                                  Len(f.temp) + 1, <<>>, <<>>)
             IN  Returned([f EXCEPT !.temp = Append(f.temp, r.written)], sc,
                          r.extracted)

extract_files_by_extensions(f, sc, filepath, extensions) ==
    IF ~IsZipFile(f, filepath) THEN Raised(f, sc, "Not a zip file")
    ELSE LET tempdir == Len(f.temp) + 1        \* tempfile.mkdtemp
             r == ExtractLoop(FileAt(f, filepath).entries, extensions,
                              tempdir, <<>>, <<>>)
         IN  Returned([f EXCEPT !.temp = Append(f.temp, r.written)], sc,
                      r.extracted)

\* The data of the extracted file at dest.
ReadTemp(f, dest) == DictGet(f.temp[dest.dir], dest.base)

(***************************************************************************)
(* The host scene.                                                         *)
(*                                                                         *)
(* scene.objects: the objects in creation order, each                      *)
(*   [id, type, loc, rot, parent, kind, from, label, cuts]                 *)
(*   id      its name (unique, never reused)                               *)
(*   type    "MESH", "CURVE" or "EMPTY"                                    *)
(*   loc     <<x, y, z>>;  rot: the Z rotation set on it, None if never    *)
(*   parent  the id of its parent, 0 for none                              *)
(*   kind    "user", "import" (made by a host importer), "dup" (a          *)
(*           duplicate), "marker" (a pin marker)                           *)
(*   from    the ids of the objects whose geometry it copies or has merged *)
(*   label   the pin id of a marker                                        *)
(*   cuts    the boolean differences applied to it: the from of each       *)
(*           cutter                                                        *)
(* scene.next: the next id; scene.active: the active object's id or 0;     *)
(* scene.selected: the ids selected; scene.part: scene['fritzing_part'].   *)
(***************************************************************************)
NewObject(id, type, kind, from) ==
    [id |-> id, type |-> type, loc |-> <<0, 0, 0>>, rot |-> None,
     parent |-> 0, kind |-> kind, from |-> from, label |-> <<>>,
     cuts |-> <<>>]

EmptyScene ==
    [objects |-> <<>>, next |-> 1, active |-> 0, selected |-> {},
     part |-> None]

Ids(sc) == {sc.objects[i].id : i \in 1..Len(sc.objects)}

\* Whether the object still exists (a reference to a removed object is stale).
Alive(sc, id) == id \in Ids(sc)

ObjectOf(sc, id) ==
    sc.objects[CHOOSE i \in 1..Len(sc.objects) : sc.objects[i].id = id]

\* The objects of the scene with the given ids, in scene order.
RECURSIVE Restrict(_, _)
Restrict(objects, ids) ==
    IF objects = <<>> THEN <<>>
    ELSE (IF Head(objects).id \in ids THEN <<Head(objects)>> ELSE <<>>)
            \o Restrict(Tail(objects), ids)

\* The scene with object id replaced by o.
SetObject(sc, id, o) ==
    [sc EXCEPT !.objects =
        [i \in 1..Len(sc.objects) |->
            IF sc.objects[i].id = id THEN o ELSE sc.objects[i]]]

\* The scene without the objects ids: each is unlinked, the objects parented
\* to it lose their parent, and it is neither active nor selected any more.
RemoveObjects(sc, ids) ==
    LET kept == Restrict(sc.objects, Ids(sc) \ ids)
    IN  [sc EXCEPT
            !.objects = [i \in 1..Len(kept) |->
                            IF kept[i].parent \in ids
                            THEN [kept[i] EXCEPT !.parent = 0] ELSE kept[i]],
            !.active = IF sc.active \in ids THEN 0 ELSE sc.active,
            !.selected = sc.selected \ ids]

\* bpy.data.objects.new and the host importers: n new objects.
RECURSIVE AddObjects(_, _, _, _)
AddObjects(sc, n, type, kind) ==
    IF n = 0 THEN sc
    ELSE AddObjects([sc EXCEPT
                        !.objects = Append(sc.objects,
                                        NewObject(sc.next, type, kind, {})),
                        !.next = sc.next + 1],
                    n - 1, type, kind)

\* The ids i..j-1 in the order the host hands them out: new_names is a Python
\* set, whose iteration order the host decides.
RECURSIVE Ascending(_, _)
Ascending(i, j) == IF i >= j THEN <<>> ELSE <<i>> \o Ascending(i + 1, j)

RECURSIVE Reversed(_)
Reversed(seq) ==
    IF seq = <<>> THEN <<>> ELSE Append(Reversed(Tail(seq)), Head(seq))

\* bpy.ops.object.join(): the selected objects of the active object's type
\* are merged into the active object and removed. It raises when the host
\* refuses (here: when told to, or with no active mesh or curve).
JoinRaises(sc, host) ==
    \/ host.joinRaises
    \/ ~Alive(sc, sc.active)
    \/ ObjectOf(sc, sc.active).type \notin {"MESH", "CURVE"}

JoinSelected(sc) ==
    LET a == ObjectOf(sc, sc.active)
        merged == {id \in sc.selected \ {a.id} :
                      Alive(sc, id) /\ ObjectOf(sc, id).type = a.type}
        from == a.from \cup
                UNION {ObjectOf(sc, id).from : id \in merged}
    IN  RemoveObjects(SetObject(sc, a.id, [a EXCEPT !.from = from]), merged)

\* bpy.ops.object.duplicate(): each selected object is copied; the copies are
\* selected in place of the originals, and the copy of the active object
\* becomes the active object.
RECURSIVE DuplicateAll(_, _)
DuplicateAll(sc, sources) ==
    IF sources = <<>> THEN sc
    ELSE LET o == Head(sources)
             copy == [o EXCEPT !.id = sc.next, !.kind = "dup",
                               !.from = {o.id}]
         IN  DuplicateAll(
                [sc EXCEPT
                    !.objects = Append(sc.objects, copy),
                    !.next = sc.next + 1,
                    !.selected = (sc.selected \ {o.id}) \cup {copy.id},
                    !.active = IF sc.active = o.id THEN copy.id
                               ELSE sc.active],
                Tail(sources))

DuplicateSelected(sc) == DuplicateAll(sc, Restrict(sc.objects, sc.selected))

(***************************************************************************)
(* _apply_boolean_cut                                                      *)
(*                                                                         *)
(* host.cutRaisesAt: the number of the subtraction whose modifier_apply    *)
(* raises a host error (0: none does).                                     *)
(***************************************************************************)
\* list.sort(key=lambda o: o.location.z): a stable ascending sort.
RECURSIVE InsertByZ(_, _, _)
InsertByZ(sc, sorted, id) ==
    IF sorted = <<>> THEN <<id>>
    ELSE IF ObjectOf(sc, id).loc[3] < ObjectOf(sc, Head(sorted)).loc[3]
         THEN <<id>> \o sorted
         ELSE <<Head(sorted)>> \o InsertByZ(sc, Tail(sorted), id)

RECURSIVE SortByZ(_, _)
SortByZ(sc, ids) ==
    IF ids = <<>> THEN <<>>
    ELSE InsertByZ(sc, SortByZ(sc, SubSeq(ids, 1, Len(ids) - 1)),
                   ids[Len(ids)])

RECURSIVE MeshOnly(_, _)
MeshOnly(sc, ids) ==
    IF ids = <<>> THEN <<>>
    ELSE (IF ObjectOf(sc, Head(ids)).type = "MESH" THEN <<Head(ids)>>
          ELSE <<>>) \o MeshOnly(sc, Tail(ids))

SeqIds(objects) == [i \in 1..Len(objects) |-> objects[i].id]

SeqToSet(seq) == {seq[i] : i \in 1..Len(seq)}

\* The steps of one iteration of the loop, last to first. c is
\* [scene, attempted, failed, aborted]: attempted lists the targets whose
\* modifier_apply was called, failed those for which it raised; aborted is set
\* when an exception leaves the loop.
\*
\* sc4: obj alone is selected and active and has the modifier. modifier_apply
\* raises when the host says so or there is no cutter; otherwise the cut is
\* made, the cutter alone is selected and the selection deleted.
CutApply(c, obj, sc4, cutter, host) ==
    IF host.cutRaisesAt = Len(c.attempted) + 1 \/ cutter = 0
    THEN [scene |-> sc4, attempted |-> Append(c.attempted, obj),
          failed |-> Append(c.failed, obj), aborted |-> TRUE]
    ELSE [scene |->
            RemoveObjects(
                [SetObject(sc4, obj,
                    [ObjectOf(sc4, obj) EXCEPT !.cuts =
                        Append(@, ObjectOf(sc4, cutter).from)])
                 EXCEPT !.selected = {cutter}],
                {cutter}),
          attempted |-> Append(c.attempted, obj),
          failed |-> c.failed, aborted |-> FALSE]

\* sc3: the cutters are duplicated and joined; the cutter is
\* bpy.context.active_object.
CutWithActive(c, obj, sc3, host) ==
    IF ~Alive(sc3, obj) THEN [c EXCEPT !.scene = sc3, !.aborted = TRUE]
    ELSE CutApply(c, obj, [sc3 EXCEPT !.selected = {obj}, !.active = obj],
                  sc3.active, host)

\* sc2: the first duplicate is active when there are several.
CutJoin(c, obj, sc2, several, host) ==
    IF several /\ JoinRaises(sc2, host)
    THEN [c EXCEPT !.scene = sc2, !.aborted = TRUE]
    ELSE CutWithActive(c, obj, IF several THEN JoinSelected(sc2) ELSE sc2,
                       host)

CutActivate(c, obj, sc1, duplicated_cutters, host) ==
    CutJoin(c, obj,
            IF Len(duplicated_cutters) > 1
            THEN [sc1 EXCEPT !.active = duplicated_cutters[1]] ELSE sc1,
            Len(duplicated_cutters) > 1, host)

\* sc1: the scene after bpy.ops.object.duplicate().
CutDuplicated(c, obj, sc1, host) ==
    CutActivate(c, obj, sc1,
                SeqIds(Restrict(sc1.objects, sc1.selected \ {obj})), host)

\* One iteration of the loop, for the target mesh_objects[i + 1] (the code's
\* index i, from 1).
CutIteration(c, mesh_objects, i, host) ==
    IF \E k \in 1..i : ~Alive(c.scene, mesh_objects[k])
    THEN [c EXCEPT !.aborted = TRUE]          \* c.select_set raises
    ELSE CutDuplicated(c, mesh_objects[i + 1],
            DuplicateSelected(
                [c.scene EXCEPT
                    !.selected = SeqToSet(SubSeq(mesh_objects, 1, i))]),
            host)

\* for i, obj in enumerate(mesh_objects[1:], 1), inside one try block: an
\* exception ends the loop.
RECURSIVE CutLoop(_, _, _, _)
CutLoop(c, mesh_objects, i, host) ==
    IF i >= Len(mesh_objects) \/ c.aborted THEN c
    ELSE CutLoop(CutIteration(c, mesh_objects, i, host), mesh_objects,
                 i + 1, host)

\* The result: [raised, scene, sorted, attempted, failed, aborted]; sorted is
\* placed_objects after the in-place sort.
CutResult(sorted, c) ==
    [raised |-> None, scene |-> c.scene, sorted |-> sorted,
     attempted |-> c.attempted, failed |-> c.failed, aborted |-> c.aborted]

NothingCut(sc) ==
    [scene |-> sc, attempted |-> <<>>, failed |-> <<>>, aborted |-> FALSE]

CutMeshes(sc, sorted, mesh_objects, host) ==
    CutResult(sorted,
              IF Len(mesh_objects) < 2 THEN NothingCut(sc)
              ELSE CutLoop(NothingCut(sc), mesh_objects, 1, host))

CutSorted(sc, sorted, host) ==
    CutMeshes(sc, sorted, MeshOnly(sc, sorted), host)

\* It raises (ReferenceError) only when the sort meets a removed object.
apply_boolean_cut(sc, placed_objects, host) ==
    IF \E k \in 1..Len(placed_objects) : ~Alive(sc, placed_objects[k])
    THEN [raised |-> Some("ReferenceError"), scene |-> sc,
          sorted |-> placed_objects, attempted |-> <<>>, failed |-> <<>>,
          aborted |-> FALSE]
    ELSE CutSorted(sc, SortByZ(sc, placed_objects), host)

(***************************************************************************)
(* The importer's helpers.                                                 *)
(*                                                                         *)
(* opts: the keyword arguments of the import functions. pin_size,          *)
(* extrusion_depth and bevel_depth are left at their defaults and not      *)
(* modelled: with extrusion_depth = 0.0 _apply_extrusion_to_objects        *)
(* returns at once.                                                        *)
(* host: what the host decides: reversed (the order in which the names of  *)
(* newly created objects come out of a set), joinRaises (object.join       *)
(* raises), cutRaisesAt.                                                   *)
(***************************************************************************)
\* _get_new_objects_after_call(_import_..._from_file, path): the importer
\* creates data.objs objects of the given type (none when it fails, which
\* the wrapper catches). The result is [scene, new_objs].
ImportFile(sc, data, type, host) ==
    LET sc1 == AddObjects(sc, data.objs, type, "import")
        ids == Ascending(sc.next, sc1.next)
    IN  [scene |-> sc1,
         new_objs |-> IF host.reversed THEN Reversed(ids) ELSE ids]

\* The conversion loop: each curve-like object becomes a mesh.
RECURSIVE ConvertEach(_, _)
ConvertEach(sc, objects) ==
    IF objects = <<>> THEN sc
    ELSE LET o == ObjectOf(sc, Head(objects))
         IN  ConvertEach(
                IF o.type = "CURVE"
                THEN SetObject(sc, o.id, [o EXCEPT !.type = "MESH"]) ELSE sc,
                Tail(objects))

convert_objects_to_mesh(sc, objects, join, host) ==
    LET sc1 == ConvertEach(sc, objects)     \* selection and active restored
        mesh_objs == SeqIds(SelectSeq(Restrict(sc1.objects, SeqToSet(objects)),
                                      LAMBDA o : o.type = "MESH"))
    IN  IF join /\ Len(mesh_objs) > 1
        THEN LET sc2 == [sc1 EXCEPT !.selected = SeqToSet(mesh_objs),
                                    !.active = mesh_objs[1]]
             IN  IF JoinRaises(sc2, host) THEN sc2 ELSE JoinSelected(sc2)
        ELSE sc1

\* The position attribute of a module: x, y and z taken from the first
\* comma-separated pieces as they are, stripped.
ModulePositionAttr(xyz, pos_attr) ==
    LET parts == Split(pos_attr, ",")
    IN  IF Len(parts) >= 2
        THEN <<Some(Strip(parts[1])), Some(Strip(parts[2])),
               IF Len(parts) >= 3 THEN Some(Strip(parts[3])) ELSE xyz[3]>>
        ELSE xyz

\* The loop over the children of a module: a <position> child with truthy x
\* and y fills the x and y that are still falsy.
RECURSIVE ModuleNestedPosition(_, _)
ModuleNestedPosition(xyz, kids) ==
    IF kids = <<>> THEN xyz
    ELSE LET child == Head(kids)
             cx == Or(Get(child, "x"), Get(child, "cx"))
             cy == Or(Get(child, "y"), Get(child, "cy"))
         IN  IF TagEndsWithPosition(child.tag) /\ Truthy(cx) /\ Truthy(cy)
             THEN ModuleNestedPosition(<<Or(xyz[1], cx), Or(xyz[2], cy),
                                         xyz[3]>>, Tail(kids))
             ELSE ModuleNestedPosition(xyz, Tail(kids))

\* A variant in which the rotate of the transform attribute is added to the
\* rotation found on the module.
get_transform_from_module_rotate_adds(module_elem) ==
    LET x == Or(Get(module_elem, "x"), Get(module_elem, "cx"))
        y == Or(Get(module_elem, "y"), Get(module_elem, "cy"))
        z == Get(module_elem, "z")
        rotation == Or(Get(module_elem, "rotation"), Get(module_elem, "angle"))
        pos_attr == Get(module_elem, "position")
        transform_attr == Get(module_elem, "transform")
        rot == FloatOrNone(rotation)
        Transformed(lx, ly, lz, t) ==
            Some([loc |-> IF IsNone(t.translate) THEN <<lx, ly, lz>>
                          ELSE <<lx + t.translate[1][1],
                                 ly + t.translate[1][2], lz>>,
                  rot |-> IF IsNone(t.rotate) THEN rot
                          ELSE IF IsNone(rot) THEN t.rotate
                          ELSE Some(rot[1] + t.rotate[1])])
        \* float() of the components: lx = ly = None when one raises
        Floats(xyz) ==
            IF \/ \E i \in 1..3 : ~IsNone(xyz[i]) /\ ~CanFloat(xyz[i][1])
               \/ IsNone(xyz[1])
               \/ IsNone(xyz[2])
            THEN None
            ELSE Transformed(Float(xyz[1][1]), Float(xyz[2][1]),
                             IF IsNone(xyz[3]) THEN 0 ELSE Float(xyz[3][1]),
                             IF Truthy(transform_attr)
                             THEN parse_transform_string(transform_attr)
                             ELSE NoTransform)
        Nested(xyz1) ==
            Floats(IF IsNone(xyz1[1]) \/ IsNone(xyz1[2])
                   THEN ModuleNestedPosition(xyz1, module_elem.children)
                   ELSE xyz1)
    IN  Nested(IF ~(Truthy(x) /\ Truthy(y)) /\ Truthy(pos_attr)
               THEN ModulePositionAttr(<<x, y, z>>, pos_attr[1])
               ELSE <<x, y, z>>)

\* None, or [loc |-> <<lx, ly, lz>>, rot |-> rotation or None].
get_transform_from_module(module_elem) ==
    LET x == Or(Get(module_elem, "x"), Get(module_elem, "cx"))
        y == Or(Get(module_elem, "y"), Get(module_elem, "cy"))
        z == Get(module_elem, "z")
        rotation == Or(Get(module_elem, "rotation"), Get(module_elem, "angle"))
        pos_attr == Get(module_elem, "position")
        transform_attr == Get(module_elem, "transform")
        rot == FloatOrNone(rotation)
        Transformed(lx, ly, lz, t) ==
            Some([loc |-> IF IsNone(t.translate) THEN <<lx, ly, lz>>
                          ELSE <<lx + t.translate[1][1],
                                 ly + t.translate[1][2], lz>>,
                  rot |-> IF IsNone(t.rotate) THEN rot ELSE t.rotate])
        \* float() of the components: lx = ly = None when one raises
        Floats(xyz) ==
            IF \/ \E i \in 1..3 : ~IsNone(xyz[i]) /\ ~CanFloat(xyz[i][1])
               \/ IsNone(xyz[1])
               \/ IsNone(xyz[2])
            THEN None
            ELSE Transformed(Float(xyz[1][1]), Float(xyz[2][1]),
                             IF IsNone(xyz[3]) THEN 0 ELSE Float(xyz[3][1]),
                             IF Truthy(transform_attr)
                             THEN parse_transform_string(transform_attr)
                             ELSE NoTransform)
        Nested(xyz1) ==
            Floats(IF IsNone(xyz1[1]) \/ IsNone(xyz1[2])
                   THEN ModuleNestedPosition(xyz1, module_elem.children)
                   ELSE xyz1)
    IN  Nested(IF ~(Truthy(x) /\ Truthy(y)) /\ Truthy(pos_attr)
               THEN ModulePositionAttr(<<x, y, z>>, pos_attr[1])
               ELSE <<x, y, z>>)

\* step_val = z_step if z_step_in_blender_units else z_step * placement_scale,
\* raised to min_z_step when that is non-zero and larger.
StepVal(opts) ==
    LET step_val == IF opts.z_step_in_blender_units THEN opts.z_step
                    ELSE opts.z_step * opts.placement_scale
    IN  IF opts.min_z_step # 0 /\ step_val < opts.min_z_step
        THEN opts.min_z_step ELSE step_val

\* _create_pin_marker and the lines that parent, place and rotate the marker:
\* rot_value = pin.get('rotation') or pin.get('angle') is None for 0.0 too.
AddMarker(sc, o, pin, opts) ==
    LET s == opts.placement_scale
        marker == [NewObject(sc.next,
                             IF opts.pin_as_mesh THEN "MESH" ELSE "EMPTY",
                             "marker", {})
                     EXCEPT !.parent = o,
                            !.loc = <<pin.position[1] * s, pin.position[2] * s,
                                      pin.position[3] * s>>,
                            !.rot = IF pin.rotation = Some(0) THEN None
                                    ELSE pin.rotation,
                            !.label = pin.id]
    IN  [sc EXCEPT !.objects = Append(sc.objects, marker),
                   !.next = sc.next + 1]

RECURSIVE MarkersForPin(_, _, _, _)
MarkersForPin(sc, pin, placed_objects, opts) ==
    IF placed_objects = <<>> THEN sc
    ELSE MarkersForPin(AddMarker(sc, Head(placed_objects), pin, opts), pin,
                       Tail(placed_objects), opts)

RECURSIVE MarkersForPins(_, _, _, _)
MarkersForPins(sc, pins, placed_objects, opts) ==
    IF pins = <<>> THEN sc
    ELSE MarkersForPins(MarkersForPin(sc, Head(pins), placed_objects, opts),
                        Tail(pins), placed_objects, opts)

\* pins = modules[0].get('pins', []) and the loops over them.
MarkersOfFirst(sc, modules, placed_objects, opts) ==
    IF modules = <<>> THEN sc
    ELSE MarkersForPins(sc, modules[1].pins, placed_objects, opts)

\* ET.tostring(module_elem) is a text whose one top-level element is the
\* module; the pins are those of the first record the parser returns for it.
create_pins_for_module(sc, module_elem, placed_objects, opts) ==
    IF ~opts.create_pins THEN sc
    ELSE MarkersOfFirst(sc,
            extract_modules_and_pins_from_fzp_string(<<module_elem>>),
            placed_objects, opts)

(***************************************************************************)
(* Placement of one module.                                                *)
(***************************************************************************)
\* _duplicate_object(base, collection): a copy of base linked to the scene,
\* or None when it cannot be made (base has been removed).
duplicate_object(sc, base) ==
    IF ~Alive(sc, base) THEN [scene |-> sc, dup |-> 0]
    ELSE LET o == ObjectOf(sc, base)
             copy == [o EXCEPT !.id = sc.next, !.kind = "dup",
                               !.from = {base}]
         IN  [scene |-> [sc EXCEPT !.objects = Append(sc.objects, copy),
                                   !.next = sc.next + 1],
              dup |-> copy.id]

\* _apply_transform_to_object(obj, loc=..., rot_z=...)
apply_transform_to_object(sc, id, loc, rot_z) ==
    LET o == ObjectOf(sc, id)
    IN  SetObject(sc, id, [o EXCEPT !.loc = loc,
                                    !.rot = IF IsNone(rot_z) THEN o.rot
                                            ELSE rot_z])

\* A variant that numbers the modules from 1.
FinalZ_from_one(mz, idx, base_idx, opts) ==
    (mz + (idx + 1) * StepVal(opts)) + base_idx * StepVal(opts)

\* The Z of the duplicate of base number base_idx of the module at index idx
\* whose resolved, scaled z is mz.
FinalZ(mz, idx, base_idx, opts) ==
    (mz + idx * StepVal(opts)) + base_idx * StepVal(opts)

\* What is done with the result d of _duplicate_object: p is
\* [scene, placed_objs].
PlaceDuplicate(p, d, module, loc, rot, opts) ==
    IF d.dup = 0 THEN [p EXCEPT !.scene = d.scene]
    ELSE [scene |-> create_pins_for_module(
                        apply_transform_to_object(d.scene, d.dup, loc, rot),
                        module, <<d.dup>>, opts),
          placed_objs |-> Append(p.placed_objs, d.dup)]

\* for base_idx, base in enumerate(base_list)
RECURSIVE PlaceBases(_, _, _, _, _, _, _)
PlaceBases(p, module, transform, idx, base_list, base_idx, opts) ==
    IF base_idx >= Len(base_list) THEN p
    ELSE PlaceBases(
            PlaceDuplicate(p,
                duplicate_object(p.scene, base_list[base_idx + 1]), module,
                <<transform.loc[1] * opts.placement_scale,
                  transform.loc[2] * opts.placement_scale,
                  FinalZ(transform.loc[3] * opts.placement_scale, idx,
                         base_idx, opts)>>,
                transform.rot, opts),
            module, transform, idx, base_list, base_idx + 1, opts)

\* After bpy.ops.object.join(), which may have raised: the pins of the active
\* object, which is what placed_all receives.
PlaceJoined(sc2, placed_all, module, opts) ==
    [scene |-> create_pins_for_module(sc2, module, <<sc2.active>>, opts),
     placed_all |-> Append(placed_all, sc2.active)]

\* sc1: the duplicates are selected and the first is active.
PlaceSelected(sc1, placed_all, module, opts, host) ==
    PlaceJoined(IF JoinRaises(sc1, host) THEN sc1 ELSE JoinSelected(sc1),
                placed_all, module, opts)

\* if join and placed_objs: ... else: placed_all.extend(placed_objs)
PlaceDuplicates(p, placed_all, module, opts, host) ==
    IF opts.join /\ p.placed_objs # <<>>
    THEN PlaceSelected([p.scene EXCEPT !.selected = SeqToSet(p.placed_objs),
                                       !.active = p.placed_objs[1]],
                       placed_all, module, opts, host)
    ELSE [scene |-> p.scene, placed_all |-> placed_all \o p.placed_objs]

\* Everything from base_list on: the duplicates, the optional join and the
\* pins of the joined object. The result is [scene, placed_all].
PlaceOnBases(sc, placed_all, module, transform, idx, base_list, opts, host) ==
    PlaceDuplicates(PlaceBases([scene |-> sc, placed_objs |-> <<>>], module,
                               transform, idx, base_list, 0, opts),
                    placed_all, module, opts, host)

\* models_map.get(name) or svgs_map.get(name): the base handles, [] for none.
BaseList(models_map, svgs_map, name) ==
    IF HasKey(models_map, name) THEN DictGet(models_map, name)
    ELSE IF HasKey(svgs_map, name) THEN DictGet(svgs_map, name)
    ELSE <<>>

\* The module is skipped without a transform or without base objects. m holds
\* the opts and the host.
PlaceResolved(sc, placed_all, module, transform, idx, base_list, m) ==
    IF IsNone(transform) \/ base_list = <<>>
    THEN [scene |-> sc, placed_all |-> placed_all]
    ELSE PlaceOnBases(sc, placed_all, module, transform[1], idx, base_list,
                      m.opts, m.host)

\* The body of the loop over the modules in import_fzp_from_zip. m is
\* [models_map, svgs_map, opts, host].
PlaceModuleFromZip(sc, placed_all, module, idx, m) ==
    IF ~Truthy(Or(Get(module, "file"), Get(module, "url")))
    THEN [scene |-> sc, placed_all |-> placed_all]
    ELSE PlaceResolved(sc, placed_all, module,
            get_transform_from_module(module), idx,
            BaseList(m.models_map, m.svgs_map,
                Lower(BaseName(Or(Get(module, "file"),
                                  Get(module, "url"))[1]))),
            m)

\* A variant in which a module that places nothing ends the loop.
RECURSIVE PlaceModulesFromZip_stops_at_skip(_, _, _, _)
StopAtSkip(p, q, modules, idx, m) ==
    IF q.placed_all = p.placed_all THEN q
    ELSE PlaceModulesFromZip_stops_at_skip(q, modules, idx + 1, m)

PlaceModulesFromZip_stops_at_skip(p, modules, idx, m) ==
    IF idx >= Len(modules) THEN p
    ELSE StopAtSkip(p,
            PlaceModuleFromZip(p.scene, p.placed_all, modules[idx + 1], idx,
                               m),
            modules, idx, m)

\* for idx, module in enumerate(root.findall('.//module')): p is
\* [scene, placed_all].
RECURSIVE PlaceModulesFromZip(_, _, _, _)
PlaceModulesFromZip(p, modules, idx, m) ==
    IF idx >= Len(modules) THEN p
    ELSE PlaceModulesFromZip(
            PlaceModuleFromZip(p.scene, p.placed_all, modules[idx + 1], idx,
                               m),
            modules, idx + 1, m)

(***************************************************************************)
(* import_fzp_from_zip                                                     *)
(***************************************************************************)
\* if new_objs: the objects r.new_objs imported from the entry src are filed
\* under its lowercased basename and converted. g is [scene, map].
FileNewObjects(g, r, src, opts, host) ==
    IF r.new_objs = <<>> THEN [g EXCEPT !.scene = r.scene]
    ELSE [scene |-> IF opts.convert_to_mesh
                    THEN convert_objects_to_mesh(r.scene, r.new_objs,
                                                 opts.join, host)
                    ELSE r.scene,
          map |-> DictPut(g.map, Lower(BaseName(src)), r.new_objs)]

\* The loops over extracted_models and extracted_svgs: each extracted file
\* is imported from its scratch location.
RECURSIVE ImportExtracted(_, _, _, _, _)
ImportExtracted(g, f, extracted, opts, host) ==
    IF extracted = <<>> THEN g
    ELSE ImportExtracted(
            FileNewObjects(g,
                ImportFile(g.scene, ReadTemp(f, Head(extracted).v),
                           IF EndsWith(Lower(Head(extracted).v.base), ExtSvg)
                           THEN "CURVE" ELSE "MESH",
                           host),
                Head(extracted).k, opts, host),
            f, Tail(extracted), opts, host)

\* The data of the archive entry called name.
EntryData(entries, name) ==
    entries[CHOOSE i \in 1..Len(entries) : entries[i].name = name].data

\* The outcome c of the cut pass, and the list it was given, join the
\* record d of the loop over the descriptors: [raised, scene, lists].
DescriptorCut(d, placed_all, c) ==
    [raised |-> c.raised, scene |-> c.scene,
     lists |-> Append(d.lists, placed_all)]

\* if perform_boolean_cut: _apply_boolean_cut(placed_all)
DescriptorPlaced(d, r, m) ==
    DescriptorCut(d, r.placed_all,
                  IF m.opts.perform_boolean_cut
                  THEN apply_boolean_cut(r.scene, r.placed_all, m.host)
                  ELSE [raised |-> None, scene |-> r.scene])

\* What import_fzp_from_zip does for one descriptor that parsed: the title,
\* the placement and the cut pass. The descriptors of the model have no
\* <title> text, so the title is the basename of the entry.
ImportDescriptor(d, fzp, root, m) ==
    IF ~m.opts.use_placement
    THEN [d EXCEPT !.scene.part = Some(BaseName(fzp))]
    ELSE DescriptorPlaced(d,
            PlaceModulesFromZip(
                [scene |-> [d.scene EXCEPT !.part = Some(BaseName(fzp))],
                 placed_all |-> <<>>],
                FindAll(root, "module"), 0, m),
            m)

\* The loop over fzp_files. d is [raised, scene, lists]: lists holds the
\* placed_all of each descriptor placed, as it was when placement ended.
RECURSIVE ImportDescriptors(_, _, _, _)
ImportDescriptors(d, entries, fzp_files, m) ==
    IF fzp_files = <<>> \/ ~IsNone(d.raised) THEN d
    ELSE LET fzp == Head(fzp_files)
             data == EntryData(entries, fzp)
             root == parse_fzp_xml_string(data.text)
         IN  IF ~data.utf8
             THEN [d EXCEPT !.raised = Some("UnicodeDecodeError")]
             ELSE ImportDescriptors(
                    IF IsNone(root) THEN d
                    ELSE ImportDescriptor(d, fzp, root[1], m),
                    entries, Tail(fzp_files), m)

\* [n for n in list_zip_contents(filepath) if n.lower().endswith('.fzp')]
FzpFiles(names) ==
    SelectSeq(names, LAMBDA n : EndsWith(Lower(n), ExtFzp))

\* The steps of import_fzp_from_zip, last to first. The outcome of the loop
\* over the descriptors is the outcome of the call.
ZipFinished(f2, d) ==
    [raised |-> d.raised, fs |-> f2, scene |-> d.scene, value |-> d.lists]

\* svgs: the scene and svgs_map after the loop over extracted_svgs.
ZipDescriptors(f2, filepath, models_map, svgs, opts, host) ==
    ZipFinished(f2,
        ImportDescriptors(
            [raised |-> None, scene |-> svgs.scene, lists |-> <<>>],
            FileAt(f2, filepath).entries,
            FzpFiles(list_zip_contents(f2, svgs.scene, filepath).value),
            [models_map |-> models_map, svgs_map |-> svgs.map,
             opts |-> opts, host |-> host]))

\* models: the scene and models_map after the loop over extracted_models.
ZipSvgs(e2, filepath, models, opts, host) ==
    ZipDescriptors(e2.fs, filepath, models.map,
        ImportExtracted([scene |-> models.scene, map |-> <<>>], e2.fs,
                        e2.value, opts, host),
        opts, host)

\* e2: the outcome of the second extraction.
ZipModels(sc, filepath, extracted_models, e2, opts, host) ==
    ZipSvgs(e2, filepath,
        ImportExtracted([scene |-> sc, map |-> <<>>], e2.fs,
                        extracted_models, opts, host),
        opts, host)

\* e1: the outcome of the first extraction.
ZipExtracted(sc, filepath, e1, opts, host) ==
    ZipModels(sc, filepath, e1.value,
        extract_files_by_extensions(e1.fs, sc, filepath, <<ExtSvg>>),
        opts, host)

import_fzp_from_zip(f, sc, filepath, opts, host) ==
    IF ~IsZipFile(f, filepath) THEN Raised(f, sc, "Not a zip archive")
    ELSE ZipExtracted(sc, filepath,
            extract_files_by_extensions(f, sc, filepath, <<ExtObj, ExtStl>>),
            opts, host)

(***************************************************************************)
(* import_fzp_file                                                         *)
(***************************************************************************)
\* target.lower().endswith(('.obj', '.stl')) and, those excluded, '.svg'
IsModel(target) ==
    EndsWith(Lower(target), ExtObj) \/ EndsWith(Lower(target), ExtStl)

IsSvg(target) == ~IsModel(target) /\ EndsWith(Lower(target), ExtSvg)

\* The steps of the body of the loop over the modules in import_fzp_file,
\* last to first. w is [scene, models_map, svgs_map, placed_all]; m is
\* [fs, basedir, opts, host]; r is the outcome [scene, placed_all] of the
\* placement.
FilePlaced(w1, r) ==
    [w1 EXCEPT !.scene = r.scene, !.placed_all = r.placed_all]

\* if use_placement: w1 is w after the import of the module's file.
FilePlace(w1, elem, idx, key, m) ==
    IF ~m.opts.use_placement THEN w1
    ELSE FilePlaced(w1,
            PlaceResolved(w1.scene, w1.placed_all, elem,
                          get_transform_from_module(elem), idx,
                          BaseList(w1.models_map, w1.svgs_map, key), m))

\* if new_objs: r is the outcome [scene, new_objs] of the import of target.
FileImported(w, r, elem, idx, target, key, m) ==
    FilePlace(
        IF r.new_objs = <<>> THEN [w EXCEPT !.scene = r.scene]
        ELSE [w EXCEPT
                !.scene = IF m.opts.convert_to_mesh
                          THEN convert_objects_to_mesh(r.scene, r.new_objs,
                                                       m.opts.join, m.host)
                          ELSE r.scene,
                !.models_map = IF IsModel(target)
                               THEN DictPut(@, key, r.new_objs) ELSE @,
                !.svgs_map = IF IsSvg(target)
                             THEN DictPut(@, key, r.new_objs) ELSE @],
        elem, idx, key, m)

\* if os.path.exists(target)
FileTarget(w, elem, idx, fileattr, target, m) ==
    IF ~Exists(m.fs, target) THEN w
    ELSE FileImported(w,
            IF IsModel(target) \/ IsSvg(target)
            THEN ImportFile(w.scene, FileAt(m.fs, target).data,
                            IF IsSvg(target) THEN "CURVE" ELSE "MESH", m.host)
            ELSE [scene |-> w.scene, new_objs |-> <<>>],
            elem, idx, target, Lower(BaseName(fileattr)), m)

ImportModuleFromFile(w, elem, idx, m) ==
    IF ~Truthy(Or(Get(elem, "file"), Get(elem, "url"))) THEN w
    ELSE FileTarget(w, elem, idx, Or(Get(elem, "file"), Get(elem, "url"))[1],
                    Join(m.basedir, Or(Get(elem, "file"), Get(elem, "url"))[1]),
                    m)

\* for idx, elem in enumerate(root.findall('.//module'))
RECURSIVE ImportModulesFromFile(_, _, _, _)
ImportModulesFromFile(w, modules, idx, m) ==
    IF idx >= Len(modules) THEN w
    ELSE ImportModulesFromFile(
            ImportModuleFromFile(w, modules[idx + 1], idx, m),
            modules, idx + 1, m)

\* The outcome of the call: the value is <<placed_all>> as it was when
\* placement ended.
FileCut(f, placed_all, c) ==
    [raised |-> c.raised, fs |-> f, scene |-> c.scene,
     value |-> <<placed_all>>]

\* if perform_boolean_cut: _apply_boolean_cut(placed_all)
FileModules(f, w, opts, host) ==
    FileCut(f, w.placed_all,
            IF opts.perform_boolean_cut
            THEN apply_boolean_cut(w.scene, w.placed_all, host)
            ELSE [raised |-> None, scene |-> w.scene])

\* if root is None: return
FileParsed(f, sc, filepath, root, opts, host) ==
    IF IsNone(root) THEN Returned(f, sc, <<>>)
    ELSE FileModules(f,
            ImportModulesFromFile(
                [scene |-> sc, models_map |-> <<>>, svgs_map |-> <<>>,
                 placed_all |-> <<>>],
                FindAll(root[1], "module"), 0,
                [fs |-> f, basedir |-> DirName(filepath), opts |-> opts,
                 host |-> host]),
            opts, host)

import_fzp_file(f, sc, filepath, opts, host) ==
    IF ~Exists(f, filepath) THEN Raised(f, sc, "File not found")
    ELSE IF ~FileAt(f, filepath).data.utf8
    THEN Raised(f, sc, "UnicodeDecodeError")
    ELSE FileParsed(f, sc, filepath,
                    parse_fzp_xml_string(FileAt(f, filepath).data.text),
                    opts, host)

(***************************************************************************)
(* ImportFritzingPart.execute                                              *)
(***************************************************************************)
\* for idx, o in enumerate(new_objs): o.location.z += idx * step_val, an
\* object that no longer exists being passed over.
RECURSIVE RaiseEach(_, _, _, _)
RaiseEach(sc, new_objs, idx, step_val) ==
    IF idx >= Len(new_objs) THEN sc
    ELSE LET id == new_objs[idx + 1]
         IN  RaiseEach(
                IF ~Alive(sc, id) THEN sc
                ELSE LET o == ObjectOf(sc, id)
                     IN  SetObject(sc, id,
                            [o EXCEPT !.loc[3] = @ + idx * step_val]),
                new_objs, idx + 1, step_val)

\* The '.svg' branch.
ImportSvg(f, sc, path, opts, host) ==
    LET r == ImportFile(sc,
                        IF Exists(f, path) THEN FileAt(f, path).data
                        ELSE GeomData(0),
                        "CURVE", host)
    IN  IF opts.convert_to_mesh /\ r.new_objs # <<>>
        THEN RaiseEach(convert_objects_to_mesh(r.scene, r.new_objs,
                                               opts.join, host),
                       r.new_objs, 0, StepVal(opts))
        ELSE r.scene

\* self.report({level}, message) followed by return {result}.
Outcome(f, sc, raised, level, message, result) ==
    [fs |-> f, scene |-> sc, raised |-> raised,
     reports |-> <<[level |-> level, message |-> message]>>,
     result |-> result]

\* A variant without the except clause: the final report is made whatever
\* the import did.
AfterImport_without_except(r) ==
    Outcome(r.fs, r.scene, r.raised, "INFO", "Fritzing part import complete",
            "FINISHED")

\* What follows the try block: the except clause when the import raised,
\* the final report otherwise.
AfterImport(r) ==
    IF ~IsNone(r.raised)
    THEN Outcome(r.fs, r.scene, r.raised, "ERROR", r.raised[1], "CANCELLED")
    ELSE Outcome(r.fs, r.scene, None, "INFO",
                 "Fritzing part import complete", "FINISHED")

\* The message of the warning is the extension.
execute(f, sc, path, opts, host) ==
    LET ext == Lower(SplitExt(path))
    IN  IF ext = ExtFzpz
        THEN AfterImport(import_fzp_from_zip(f, sc, path, opts, host))
        ELSE IF ext = ExtFzp
        THEN AfterImport(import_fzp_file(f, sc, path, opts, host))
        ELSE IF ext = ExtSvg
        THEN AfterImport(Returned(f, ImportSvg(f, sc, path, opts, host), <<>>))
        ELSE Outcome(f, sc, None, "WARNING", ext, "CANCELLED")

(***************************************************************************)
(* The world of the import specifications.                                 *)
(***************************************************************************)
PartArchive == <<"p", ".", "f", "z", "p", "z">>

PartFile == <<"d", "/", "p", "a", "r", "t", ".", "f", "z", "p">>

NotArchive == <<"n", ".", "f", "z", "p", "z">>

NotArchiveUpper == <<"N", ".", "F", "Z", "P", "Z">>

BadArchive == <<"q", ".", "f", "z", "p", "z">>

MissingFile == <<"m", ".", "f", "z", "p">>

BinaryFile == <<"b", ".", "f", "z", "p">>

TextFile == <<"r", ".", "t", "x", "t">>

SvgFile == <<"s", ".", "s", "v", "g">>

FzpEntry == <<"p", "a", "r", "t", ".", "f", "z", "p">>

ObjEntry == <<"a", ".", "o", "b", "j">>

SvgEntry == <<"r", "e", "s", "/", "B", ".", "S", "V", "G">>

StlName == <<"c", ".", "s", "t", "l">>

Entry(name, data) == [name |-> name, data |-> data]

\* The files around one descriptor: an archive holding it with an OBJ model
\* (one object) and an SVG drawing (two curves), the same three files in the
\* directory d, a text file with the extension .fzpz, an archive whose
\* descriptor is not UTF-8, a binary .fzp, a text file and a drawing.
World(doc) ==
    [files |->
        << ZipFile(PartArchive, << Entry(FzpEntry, XmlData(doc)),
                                   Entry(ObjEntry, GeomData(1)),
                                   Entry(SvgEntry, GeomData(2)) >>),
           PlainFile(PartFile, XmlData(doc)),
           PlainFile(Join(<<"d">>, ObjEntry), GeomData(1)),
           PlainFile(Join(<<"d">>, SvgEntry), GeomData(2)),
           PlainFile(NotArchive, XmlData(doc)),
           PlainFile(NotArchiveUpper, XmlData(doc)),
           ZipFile(BadArchive, << Entry(ObjEntry, GeomData(1)),
                                  Entry(FzpEntry, BinaryData) >>),
           PlainFile(BinaryFile, BinaryData),
           PlainFile(TextFile, XmlData(doc)),
           PlainFile(SvgFile, GeomData(2)) >>,
     temp |-> <<>>]

\* The scene of a new host session: one mesh, selected and active.
UserScene ==
    [AddObjects(EmptyScene, 1, "MESH", "user") EXCEPT !.active = 1,
                                                      !.selected = {1}]

\* The pin-like children of the modules of the generated descriptors.
PinA1 == El("pin", [id |-> <<"1">>, x |-> <<"1">>, y |-> <<"2">>], <<>>)

PinA2 ==
    El("pad", [id |-> <<"2">>, position |-> <<"3", ",", "4">>,
               rotation |-> <<"9", "0">>], <<>>)

PinB1 == El("connector", [name |-> <<"c">>, cx |-> <<"5">>, cy |-> <<"6">>], <<>>)

PinB2 == El("pin", [id |-> <<"3">>], <<>>)

\* The modules of the generated descriptors: one with a model, a position
\* and two pins; one with a drawing of two curves and a rotation; one without
\* a file reference; one without a position; one whose file is in no archive
\* or directory.
ModuleKinds == {"model", "drawing", "nofile", "noxy", "unmatched"}

ModuleOfKind(kind) ==
    CASE kind = "model" ->
            El("module", [id |-> <<"A">>, file |-> ObjEntry, x |-> <<"1">>,
                          y |-> <<"2">>, z |-> <<"3">>], <<PinA1, PinA2>>)
      [] kind = "drawing" ->
            El("module", [name |-> <<"B">>, url |-> SvgEntry, x |-> <<"0">>,
                          y |-> <<"5">>, rotation |-> <<"9", "0">>],
               <<PinB1, PinB2>>)
      [] kind = "nofile" ->
            El("module", [id |-> <<"C">>, x |-> <<"1">>, y |-> <<"1">>], <<>>)
      [] kind = "noxy" ->
            El("module", [id |-> <<"D">>, file |-> ObjEntry], <<PinA1>>)
      [] kind = "unmatched" ->
            El("module", [id |-> <<"E">>, file |-> StlName, x |-> <<"1">>,
                          y |-> <<"1">>], <<>>)

MaxModules == 2

\* A descriptor whose root is a module that holds another module.
NestedModules ==
    << El("module", [id |-> <<"R">>, file |-> ObjEntry, x |-> <<"7">>,
                     y |-> <<"2">>, z |-> <<"3">>],
          <<ModuleOfKind("model")>>) >>

\* A part with up to MaxModules modules, the module that is itself the root
\* of its descriptor, and the module below a root module.
ImportDocs ==
    { << El0("part", [i \in 1..Len(kinds) |-> ModuleOfKind(kinds[i])]) >> :
        kinds \in SeqsUpTo(ModuleKinds, MaxModules) }
    \cup { <<ModuleOfKind("model")>>, NestedModules }

\* The descriptor of the operator's runs.
TwoModules ==
    << El0("part", <<ModuleOfKind("model"), ModuleOfKind("drawing"),
                     ModuleOfKind("model")>>) >>

\* The keyword arguments of the import functions, within the ranges the
\* operator's properties allow (min=0.0).
ImportOpts ==
    [convert_to_mesh : {FALSE}, join : BOOLEAN, use_placement : {TRUE},
     placement_scale : {1, 2}, create_pins : BOOLEAN, pin_as_mesh : {FALSE},
     perform_boolean_cut : {FALSE}, z_step : {0, 3},
     z_step_in_blender_units : BOOLEAN, min_z_step : {0, 4}]

ImportHosts == [reversed : BOOLEAN, joinRaises : {FALSE}, cutRaisesAt : {0}]

ExecuteOpts ==
    [convert_to_mesh : BOOLEAN, join : BOOLEAN, use_placement : BOOLEAN,
     placement_scale : {1}, create_pins : BOOLEAN, pin_as_mesh : BOOLEAN,
     perform_boolean_cut : BOOLEAN, z_step : {3},
     z_step_in_blender_units : {FALSE}, min_z_step : {4}]

ExecuteHosts == [reversed : {FALSE}, joinRaises : BOOLEAN, cutRaisesAt : {0, 1}]

ExecutePaths ==
    {PartArchive, PartFile, NotArchive, NotArchiveUpper, BadArchive,
     MissingFile, BinaryFile, TextFile, SvgFile}

(***************************************************************************)
(* Specifications of the import functions and of the operator. arg is      *)
(* [path, opts, host]; ret is <<>> before the call and afterwards          *)
(* [op, raised, value], with the result of execute added for the operator. *)
(***************************************************************************)
ImportInit ==
    /\ pc = "call"
    /\ arg \in [path : {PartArchive, PartFile}, opts : ImportOpts,
                host : ImportHosts]
    /\ ret = <<>>
    /\ \E doc \in ImportDocs : fs = World(doc)
    /\ scene = UserScene
    /\ reports = <<>>

ExecuteInit ==
    /\ pc = "call"
    /\ arg \in [path : ExecutePaths, opts : ExecuteOpts, host : ExecuteHosts]
    /\ ret = <<>>
    /\ fs = World(TwoModules)
    /\ scene = UserScene
    /\ reports = <<>>

\* A call of a function whose outcome is r.
Call(op, r) ==
    /\ pc = "call"
    /\ pc' = "done"
    /\ ret' = [op |-> op, raised |-> r.raised, value |-> r.value]
    /\ fs' = r.fs
    /\ scene' = r.scene
    /\ UNCHANGED <<arg, reports>>

ListZipContents ==
    Call("list_zip_contents", list_zip_contents(fs, scene, arg.path))

ExtractFilesByExtensions ==
    \E extensions \in {<<ExtObj, ExtStl>>, <<ExtSvg>>} :
        Call("extract_files_by_extensions",
             extract_files_by_extensions(fs, scene, arg.path, extensions))

ImportFzpFromZip ==
    Call("import_fzp_from_zip",
         import_fzp_from_zip(fs, scene, arg.path, arg.opts, arg.host))

ImportFzpFile ==
    Call("import_fzp_file",
         import_fzp_file(fs, scene, arg.path, arg.opts, arg.host))

Execute ==
    /\ pc = "call"
    /\ LET r == execute(fs, scene, arg.path, arg.opts, arg.host)
       IN  /\ ret' = [op |-> "execute", raised |-> r.raised,
                      value |-> r.result]
           /\ fs' = r.fs
           /\ scene' = r.scene
           /\ reports' = reports \o r.reports
    /\ pc' = "done"
    /\ UNCHANGED arg

ImportNext == ImportFzpFromZip \/ ImportFzpFile

SpecImport == ImportInit /\ [][ImportNext]_vars

ExecuteNext ==
    \/ ListZipContents
    \/ ExtractFilesByExtensions
    \/ ImportFzpFromZip
    \/ ImportFzpFile
    \/ Execute

SpecExecute == ExecuteInit /\ [][ExecuteNext]_vars

(***************************************************************************)
(* Specification of the archive operations on archives of geometry files:  *)
(* up to MaxEntries entries with different names, some of them in archive  *)
(* directories, each importing one or two objects. arg is                  *)
(* [path, opts, host] as above.                                            *)
(***************************************************************************)
MaxEntries == 2

ObjInDir == <<"x", "/", "a", ".", "o", "b", "j">>

SvgFlat == <<"B", ".", "S", "V", "G">>

ArchiveNames == {ObjEntry, ObjInDir, StlName, SvgEntry, SvgFlat}

ArchiveEntries == {Entry(n, GeomData(k)) : n \in ArchiveNames, k \in {1, 2}}

ArchiveEntryLists ==
    {s \in SeqsUpTo(ArchiveEntries, MaxEntries) :
        \A i, j \in 1..Len(s) : i # j => s[i].name # s[j].name}

ArchiveOpts ==
    [convert_to_mesh |-> FALSE, join |-> FALSE, use_placement |-> TRUE,
     placement_scale |-> 1, create_pins |-> FALSE, pin_as_mesh |-> FALSE,
     perform_boolean_cut |-> FALSE, z_step |-> 0,
     z_step_in_blender_units |-> FALSE, min_z_step |-> 0]

ArchiveInit ==
    /\ pc = "call"
    /\ arg = [path |-> PartArchive, opts |-> ArchiveOpts,
              host |-> [reversed |-> FALSE, joinRaises |-> FALSE,
                        cutRaisesAt |-> 0]]
    /\ ret = <<>>
    /\ \E entries \in ArchiveEntryLists :
          fs = [files |-> <<ZipFile(PartArchive, entries)>>, temp |-> <<>>]
    /\ scene = UserScene
    /\ reports = <<>>

ArchiveNext == ExtractFilesByExtensions \/ ImportFzpFromZip

SpecArchive == ArchiveInit /\ [][ArchiveNext]_vars

(***************************************************************************)
(* Specification of the two import functions on one part kept both as an   *)
(* archive and as a descriptor file beside its geometry, on a file system  *)
(* that tells upper case from lower case: the models A.obj (two objects)   *)
(* and a.obj (one object) and the drawing res/B.SVG (two curves). Every    *)
(* module has a position and a file that is there. arg is                  *)
(* [path, opts, host] as above.                                            *)
(***************************************************************************)
UpperObj == <<"A", ".", "o", "b", "j">>

PairedWorld(doc) ==
    [files |->
        << ZipFile(PartArchive, << Entry(FzpEntry, XmlData(doc)),
                                   Entry(UpperObj, GeomData(2)),
                                   Entry(ObjEntry, GeomData(1)),
                                   Entry(SvgEntry, GeomData(2)) >>),
           PlainFile(PartFile, XmlData(doc)),
           PlainFile(Join(<<"d">>, UpperObj), GeomData(2)),
           PlainFile(Join(<<"d">>, ObjEntry), GeomData(1)),
           PlainFile(Join(<<"d">>, SvgEntry), GeomData(2)) >>,
     temp |-> <<>>]

PairedKinds == {"model", "drawing", "upper"}

PairedModule(kind) ==
    IF kind = "upper"
    THEN El("module", [id |-> <<"U">>, file |-> UpperObj, x |-> <<"2">>,
                       y |-> <<"3">>, z |-> <<"1">>], <<>>)
    ELSE ModuleOfKind(kind)

PairedDocs ==
    { << El0("part", [i \in 1..Len(kinds) |-> PairedModule(kinds[i])]) >> :
        kinds \in SeqsUpTo(PairedKinds, MaxModules) }

PairedOpts ==
    [convert_to_mesh : {FALSE}, join : BOOLEAN, use_placement : {TRUE},
     placement_scale : {1, 2}, create_pins : {FALSE}, pin_as_mesh : {FALSE},
     perform_boolean_cut : {FALSE}, z_step : {0, 3},
     z_step_in_blender_units : {FALSE}, min_z_step : {0}]

PairedInit ==
    /\ pc = "call"
    /\ arg \in [path : {PartArchive, PartFile}, opts : PairedOpts,
                host : ImportHosts]
    /\ ret = <<>>
    /\ \E doc \in PairedDocs : fs = PairedWorld(doc)
    /\ scene = UserScene
    /\ reports = <<>>

SpecPaired == PairedInit /\ [][ImportNext]_vars

(***************************************************************************)
(* Specification of _apply_boolean_cut calls. arg is                       *)
(* [instances, placed_objects, host, active]: the instances as [type, z],  *)
(* in the order of placed_all, and their ids; ret is <<>> before the call  *)
(* and the result of apply_boolean_cut, less the scene, afterwards. The    *)
(* active object at the call is whatever the host left active: none, the   *)
(* user's object or one of the instances.                                  *)
(***************************************************************************)
MaxPlaced == 3

InstanceKinds == [type : {"MESH", "CURVE"}, z : {0, 1, 2}]

\* The scene with the instances added, each a duplicate at its z.
RECURSIVE AddInstances(_, _)
AddInstances(sc, instances) ==
    IF instances = <<>> THEN sc
    ELSE AddInstances(
            [sc EXCEPT
                !.objects = Append(sc.objects,
                    [NewObject(sc.next, Head(instances).type, "dup", {})
                        EXCEPT !.loc = <<0, 0, Head(instances).z>>]),
                !.next = sc.next + 1],
            Tail(instances))

\* The ids AddInstances gives to n instances added to UserScene.
PlacedIds(n) == Ascending(UserScene.next, UserScene.next + n)

CutHosts ==
    [reversed : {FALSE}, joinRaises : BOOLEAN, cutRaisesAt : 0..(MaxPlaced - 1)]

CutInit ==
    /\ pc = "call"
    /\ \E instances \in SeqsUpTo(InstanceKinds, MaxPlaced), host \in CutHosts :
          \E active \in 0..(Len(instances) + 1) :
             /\ arg = [instances |-> instances,
                       placed_objects |-> PlacedIds(Len(instances)),
                       host |-> host, active |-> active]
             /\ scene = [AddInstances(UserScene, instances)
                            EXCEPT !.active = active]
    /\ ret = <<>>
    /\ fs = [files |-> <<>>, temp |-> <<>>]
    /\ reports = <<>>

ApplyBooleanCut ==
    /\ pc = "call"
    /\ LET r == apply_boolean_cut(scene, arg.placed_objects, arg.host)
       IN  /\ ret' = [raised |-> r.raised, sorted |-> r.sorted,
                      attempted |-> r.attempted, failed |-> r.failed,
                      aborted |-> r.aborted]
           /\ scene' = r.scene
    /\ pc' = "done"
    /\ UNCHANGED <<arg, fs, reports>>

CutNext == ApplyBooleanCut

SpecCut == CutInit /\ [][CutNext]_vars

(***************************************************************************)
(* Specification of _get_transform_from_module calls. arg is the module    *)
(* element, ret is <<>> before the call and <<result>> afterwards.         *)
(***************************************************************************)
MaxModuleTokens == 2

\* Where a module's x and y come from: its x and y, its cx and cy, its
\* position attribute, both of the first and the third, a nested position
\* element, nowhere; and its z: absent, a number, not a number.
PositionAttrs ==
    { [x |-> <<"1">>, y |-> <<"2">>],
      [x |-> <<"1">>, y |-> <<"2">>, z |-> <<"9">>],
      [x |-> <<"1">>, y |-> <<"2">>, z |-> <<"a">>],
      [cx |-> <<"3">>, cy |-> <<"4">>],
      [position |-> <<"5", ",", "6">>],
      [x |-> <<"1">>, y |-> <<"2">>, position |-> <<"5", ",", "6">>],
      [id |-> <<"M">>] }

RotationAttrs ==
    { [file |-> <<"a">>],
      [rotation |-> <<"9", "0">>],
      [angle |-> <<"4", "5">>],
      [rotation |-> <<"x">>, angle |-> <<"4", "5">>] }

ModuleTransformItems ==
    { [fn |-> "translate", args |-> <<"1", ",", "2">>],
      [fn |-> "translate", args |-> <<"2">>],
      [fn |-> "rotate", args |-> <<"2">>],
      [fn |-> "rotate", args |-> <<"3", " ", "1", " ", "1">>],
      [fn |-> "scale", args |-> <<"2">>] }

NestedPositionChild == El("position", [x |-> <<"7">>, y |-> <<"8">>], <<>>)

TransformModules ==
    { [tag |-> "module",
       attrs |-> [a \in AttrNames |->
                    IF a = "transform" THEN tr
                    ELSE IF a \in DOMAIN pos THEN Some(pos[a])
                    ELSE IF a \in DOMAIN rot THEN Some(rot[a])
                    ELSE None],
       children |-> kids] :
        pos \in PositionAttrs, rot \in RotationAttrs,
        tr \in {None} \cup {Some(s) : s \in SeqsUpTo(ModuleTransformItems,
                                                      MaxModuleTokens)},
        kids \in {<<>>, <<NestedPositionChild>>} }

ModuleTransformInit ==
    pc = "call" /\ arg \in TransformModules /\ ret = <<>> /\ NoWorld

GetTransformFromModule ==
    /\ pc = "call"
    /\ ret' = <<get_transform_from_module(arg)>>
    /\ pc' = "done"
    /\ UNCHANGED <<arg, fs, scene, reports>>

ModuleTransformNext == GetTransformFromModule

SpecModuleTransform == ModuleTransformInit /\ [][ModuleTransformNext]_vars

\* The x and y the spec resolves for a module, None when it has none: the
\* x and y (else cx and cy) attributes, else the position attribute, else a
\* nested position element.
ClaimedXY(module) ==
    LET x == IF Truthy(Get(module, "x")) THEN Get(module, "x")
             ELSE Get(module, "cx")
        y == IF Truthy(Get(module, "y")) THEN Get(module, "y")
             ELSE Get(module, "cy")
        pos == Get(module, "position")
        kids == SelectSeq(module.children, LAMBDA c : c.tag = "position")
    IN  IF Truthy(x) /\ Truthy(y)
        THEN (IF CanFloat(x[1]) /\ CanFloat(y[1])
              THEN Some(<<Float(x[1]), Float(y[1])>>) ELSE None)
        ELSE IF Truthy(pos)
        THEN (IF Len(PosComponents(pos[1])) >= 2
                 /\ AllCanFloat(PosComponents(pos[1]))
              THEN Some(<<Float(PosComponents(pos[1])[1]),
                          Float(PosComponents(pos[1])[2])>>)
              ELSE None)
        ELSE IF kids # <<>>
        THEN Some(<<Float(Get(kids[1], "x")[1]), Float(Get(kids[1], "y")[1])>>)
        ELSE None

\* The z of the module is absent or a number.
ClaimedZ(module) ==
    IsNone(Get(module, "z")) \/ CanFloat(Get(module, "z")[1])

NumMesh ==
    Cardinality({i \in 1..Len(arg.instances) : arg.instances[i].type = "MESH"})

\* C6: when the subtraction for one target fails with a host error, only that
\* subtraction is skipped: the error does not leave the pass and every later
\* target of the Z-sorted mesh list still has its subtraction attempted, so
\* that each of the NumMesh - 1 targets has been attempted when the pass
\* returns.
C6_FailedCutSkipsOnlyItself ==
    (pc = "done" /\ arg.host.cutRaisesAt > 0 /\ ret.failed # <<>>)
        => /\ ret.raised = None
           /\ Len(ret.attempted) = NumMesh - 1

\* The placed instances in ascending Z, instances of equal Z in the order of
\* the list, and the meshes among them.
RECURSIVE ClaimedSorted(_)
ClaimedSorted(ids) ==
    IF ids = <<>> THEN <<>>
    ELSE LET z(id) == arg.instances[id - 1].z
             low == CHOOSE i \in 1..Len(ids) :
                       /\ \A j \in 1..Len(ids) : z(ids[i]) <= z(ids[j])
                       /\ \A j \in 1..(i - 1) : z(ids[j]) # z(ids[i])
         IN  <<ids[low]>>
                \o ClaimedSorted(SubSeq(ids, 1, low - 1)
                                    \o SubSeq(ids, low + 1, Len(ids)))

ClaimedMeshes ==
    SelectSeq(ClaimedSorted(arg.placed_objects),
              LAMBDA id : arg.instances[id - 1].type = "MESH")

NoHostFailure == arg.host.cutRaisesAt = 0 /\ ~arg.host.joinRaises

\* C12: without a host failure the pass sorts the placed instances by
\* ascending Z, leaves the non-mesh instances alone, and for the mesh at
\* position i >= 1 makes exactly one subtraction, of a cutter made from
\* copies of exactly the meshes at positions 0..i-1; the n - 1 subtractions
\* are made in ascending-Z order, and none when n < 2.
C12_CutsInAscendingZ ==
    (pc = "done" /\ NoHostFailure)
        => /\ ret.raised = None
           /\ ret.sorted = ClaimedSorted(arg.placed_objects)
           /\ ret.attempted = SubSeq(ClaimedMeshes, 2, Len(ClaimedMeshes))
           /\ ret.failed = <<>>
           /\ \A k \in 1..Len(arg.placed_objects) :
                 LET id == arg.placed_objects[k]
                 IN  /\ Alive(scene, id)
                     /\ ObjectOf(scene, id).cuts =
                           IF \E i \in 2..Len(ClaimedMeshes) :
                                 ClaimedMeshes[i] = id
                           THEN << SeqToSet(SubSeq(ClaimedMeshes, 1,
                                     (CHOOSE i \in 2..Len(ClaimedMeshes) :
                                         ClaimedMeshes[i] = id) - 1)) >>
                           ELSE <<>>

\* The objects made during the pass that are still in the scene.
CuttersLeft ==
    {id \in Ids(scene) : id > Len(arg.instances) + 1}

\* C19: when the pass returns, the scene holds no temporary cutter: every
\* duplicate the pass made has been deleted, whether the subtractions
\* succeeded or failed, and no placed instance has been deleted.
C19_NoCutterLeft ==
    pc = "done"
        => /\ CuttersLeft = {}
           /\ \A k \in 1..Len(arg.placed_objects) :
                 Alive(scene, arg.placed_objects[k])

(***************************************************************************)
(* Properties of the import functions.                                     *)
(***************************************************************************)
\* The descriptor of the world, and its modules when its root is a part.
Descriptor == FileAt(fs, PartFile).data.text

ModulesOfPart ==
    SelectSeq(Descriptor[1].children, LAMBDA e : e.tag = "module")

\* The number of base objects the file of a module gives: one for the model,
\* two for the drawing, none for a file that is not there.
BasesOf(module) ==
    LET ref == Or(Get(module, "file"), Get(module, "url"))
    IN  IF ref = Some(ObjEntry) THEN 1
        ELSE IF ref = Some(SvgEntry) THEN 2
        ELSE 0

HasXY(module) == Truthy(Get(module, "x")) /\ Truthy(Get(module, "y"))

\* The module each placed instance is made for, in placement order.
RECURSIVE OwnersOf(_)
OwnersOf(modules) ==
    IF modules = <<>> THEN <<>>
    ELSE (IF HasXY(Head(modules))
          THEN [i \in 1..BasesOf(Head(modules)) |-> Head(modules)]
          ELSE <<>>) \o OwnersOf(Tail(modules))

\* The markers parented to the object d, as [id, loc], in creation order.
MarkersOn(d) ==
    LET ms == SelectSeq(scene.objects,
                        LAMBDA o : o.kind = "marker" /\ o.parent = d)
    IN  [i \in 1..Len(ms) |-> [id |-> ms[i].label, loc |-> ms[i].loc]]

\* The markers the pin records of a module call for.
MarkersFor(module) ==
    LET pins == PinRecords(PinLikeElements(module))
        s == arg.opts.placement_scale
    IN  [i \in 1..Len(pins) |->
            [id |-> pins[i].id,
             loc |-> <<pins[i].position[1] * s, pins[i].position[2] * s,
                       pins[i].position[3] * s>>]]

\* C2: when create_pins is requested, every duplicate produced for a placed
\* module carries one pin marker per pin record of that module, parented to
\* the duplicate and located at the pin position multiplied by
\* placement_scale (stated for imports that do not join the duplicates).
C2_PinMarkersPerDuplicate ==
    (/\ pc = "done"
     /\ ret.raised = None
     /\ arg.opts.create_pins
     /\ ~arg.opts.join
     /\ Descriptor[1].tag = "part"
     /\ Len(ret.value) = 1
     /\ Len(ret.value[1]) = Len(OwnersOf(ModulesOfPart)))
        => \A i \in 1..Len(ret.value[1]) :
              MarkersOn(ret.value[1][i]) = MarkersFor(OwnersOf(ModulesOfPart)[i])

Max(a, b) == IF a >= b THEN a ELSE b

\* The z attribute of a module as a number, 0 when absent.
BaseZ(module) ==
    IF IsNone(Get(module, "z")) THEN 0 ELSE Float(Get(module, "z")[1])

\* C3: for a descriptor whose N modules each contribute one placed instance,
\* with z_step_in_blender_units = False, placement_scale = s, z_step = t and
\* min_z_step = m, the Z of the instance placed for the module at index idx
\* is base_z * s + idx * max(t * s, m), in import_fzp_from_zip and in
\* import_fzp_file alike.
C3_ZStacking ==
    (/\ pc = "done"
     /\ ret.raised = None
     /\ ~arg.opts.z_step_in_blender_units
     /\ Descriptor[1].tag = "part"
     /\ \A i \in 1..Len(ModulesOfPart) :
            HasXY(ModulesOfPart[i]) /\ BasesOf(ModulesOfPart[i]) = 1)
        => /\ Len(ret.value) = 1
           /\ Len(ret.value[1]) = Len(ModulesOfPart)
           /\ \A idx \in 0..(Len(ModulesOfPart) - 1) :
                ObjectOf(scene, ret.value[1][idx + 1]).loc[3]
                    = BaseZ(ModulesOfPart[idx + 1]) * arg.opts.placement_scale
                        + idx * Max(arg.opts.z_step * arg.opts.placement_scale,
                                    arg.opts.min_z_step)

\* Two modules with one model each, imported from the archive with s = 1,
\* t = 3 and m = 4: the second instance is at 3 * 1 + 1 * 4.
C3_Witness ==
    /\ pc = "done"
    /\ ret.op = "import_fzp_from_zip"
    /\ ret.raised = None
    /\ ~arg.opts.z_step_in_blender_units
    /\ arg.opts.placement_scale = 1
    /\ arg.opts.z_step = 3
    /\ arg.opts.min_z_step = 4
    /\ Descriptor[1].tag = "part"
    /\ Len(ModulesOfPart) = 2
    /\ \A i \in 1..2 : HasXY(ModulesOfPart[i]) /\ BasesOf(ModulesOfPart[i]) = 1
    /\ Len(ret.value[1]) = 2
    /\ ObjectOf(scene, ret.value[1][1]).loc[3] = 3
    /\ ObjectOf(scene, ret.value[1][2]).loc[3] = 7

\* The step the spec gives: z_step in host units, or scaled by
\* placement_scale, and at least min_z_step.
ClaimedStep ==
    Max(IF arg.opts.z_step_in_blender_units THEN arg.opts.z_step
        ELSE arg.opts.z_step * arg.opts.placement_scale,
        arg.opts.min_z_step)

\* The location the spec gives the duplicate of base number b of the module
\* numbered idx.
ClaimedLoc(module, idx, b) ==
    << Float(Get(module, "x")[1]) * arg.opts.placement_scale,
       Float(Get(module, "y")[1]) * arg.opts.placement_scale,
       BaseZ(module) * arg.opts.placement_scale
          + idx * ClaimedStep + b * ClaimedStep >>

\* C11: the index idx of a module's Z offset is its 0-based position among
\* all the module elements of the descriptor, skipped modules included:
\* every placed instance is at the location of some module with resolvable
\* x and y, offset by that module's position among all module elements
\* (and by the number of the base it duplicates).
C11_IndexCountsEveryModule ==
    (/\ pc = "done"
     /\ ret.raised = None
     /\ ~arg.opts.join
     /\ Len(ret.value) = 1)
        => \A i \in 1..Len(ret.value[1]) :
              \E idx \in 0..(Len(AllModuleElements(Descriptor[1])) - 1) :
                 LET module == AllModuleElements(Descriptor[1])[idx + 1]
                 IN  /\ HasXY(module)
                     /\ \E b \in 0..(BasesOf(module) - 1) :
                            ObjectOf(scene, ret.value[1][i]).loc
                                = ClaimedLoc(module, idx, b)

\* The instances placement has left in the scene, in the order in which
\* they were made, which is the order of the modules.
InstancesInScene ==
    SeqIds(SelectSeq(scene.objects, LAMBDA o : o.kind = "dup"))

\* The modules of the part that are placed: a position and a file that is
\* there.
PlacedModules ==
    SelectSeq(ModulesOfPart, LAMBDA m : HasXY(m) /\ BasesOf(m) > 0)

ImportOperations == {"import_fzp_from_zip", "import_fzp_file"}

\* C13: after a descriptor is placed, the flat list kept for the cut pass
\* holds, in module order, every instance that placement left in the scene:
\* every duplicate when join is off, one merged instance for each placed
\* module when join is on, whether the host's join succeeds or not (stated
\* for imports without the cut pass, which changes the scene afterwards).
C13_FlatListHoldsEveryInstance ==
    (/\ pc = "done"
     /\ ret.op \in ImportOperations
     /\ arg.path \in {PartArchive, PartFile}
     /\ ret.raised = None
     /\ arg.opts.use_placement
     /\ ~arg.opts.perform_boolean_cut)
        => /\ Len(ret.value) = 1
           /\ ret.value[1] = InstancesInScene
           /\ arg.opts.join => Len(ret.value[1]) = Len(PlacedModules)

\* The import function is given the file it is meant for.
RightFile ==
    \/ ret.op = "import_fzp_from_zip" /\ arg.path = PartArchive
    \/ ret.op = "import_fzp_file" /\ arg.path = PartFile

\* The x and y of the instances a list of owners calls for.
ClaimedXYs(owners) ==
    [i \in 1..Len(owners) |->
        << Float(Get(owners[i], "x")[1]) * arg.opts.placement_scale,
           Float(Get(owners[i], "y")[1]) * arg.opts.placement_scale >>]

\* C15: a module without a file reference, without resolvable x and y, or
\* whose file matches no imported geometry produces no instance and no
\* error, and the modules after it are still placed: the import returns
\* normally and the instances it lists are those of the other modules, all
\* of them, in order (one for each of their base objects when join is off,
\* one for each module when it is on).
C15_SkippedModulesAreSilent ==
    (pc = "done" /\ RightFile)
        => /\ ret.raised = None
           /\ Len(ret.value) = 1
           /\ Descriptor[1].tag = "part"
                => LET owners == IF arg.opts.join THEN PlacedModules
                                 ELSE OwnersOf(ModulesOfPart)
                   IN  /\ Len(ret.value[1]) = Len(owners)
                       /\ \A i \in 1..Len(owners) :
                            SubSeq(ObjectOf(scene, ret.value[1][i]).loc, 1, 2)
                                = ClaimedXYs(owners)[i]

\* A part whose first module matches no geometry and whose second has a
\* model: one instance, at the second module's x and y.
C15_Witness ==
    /\ pc = "done"
    /\ RightFile
    /\ ret.raised = None
    /\ Descriptor[1].tag = "part"
    /\ Len(ModulesOfPart) = 2
    /\ Get(ModulesOfPart[1], "file") = Some(StlName)
    /\ Get(ModulesOfPart[2], "file") = Some(ObjEntry)
    /\ Len(ret.value[1]) = 1
    /\ SubSeq(ObjectOf(scene, ret.value[1][1]).loc, 1, 2)
          = <<arg.opts.placement_scale, 2 * arg.opts.placement_scale>>

\* The modules the listed instances are made for: one entry for each
\* duplicate, or one for each placed module when the duplicates are joined.
InstanceOwners ==
    IF arg.opts.join THEN PlacedModules ELSE OwnersOf(ModulesOfPart)

\* C17: with a positive step, any two instances placed from one descriptor
\* whose modules have the same base z are at different world Z, also when
\* a module's file gives more than one base object.
C17_SameBaseZStacksApart ==
    (/\ pc = "done"
     /\ RightFile
     /\ ret.raised = None
     /\ ClaimedStep > 0
     /\ Descriptor[1].tag = "part"
     /\ Len(ret.value) = 1
     /\ Len(ret.value[1]) = Len(InstanceOwners))
        => \A i, j \in 1..Len(ret.value[1]) :
              (i < j /\ BaseZ(InstanceOwners[i]) = BaseZ(InstanceOwners[j]))
                 => ObjectOf(scene, ret.value[1][i]).loc[3]
                      # ObjectOf(scene, ret.value[1][j]).loc[3]

(***************************************************************************)
(* Properties of the archive operations and of the operator.               *)
(***************************************************************************)
ArchiveOperations ==
    {"list_zip_contents", "extract_files_by_extensions", "import_fzp_from_zip"}

\* C7: a path that is not a valid zip archive makes list_zip_contents,
\* extract_files_by_extensions and import_fzp_from_zip raise an error instead
\* of returning a result, before any scratch directory, extracted file or
\* scene object is created.
C7_NonArchiveFailsFirst ==
    (/\ pc = "done"
     /\ ret.op \in ArchiveOperations
     /\ arg.path \notin {PartArchive, BadArchive})
        => /\ ~IsNone(ret.raised)
           /\ ret.value = <<>>
           /\ fs.temp = <<>>
           /\ scene = UserScene

\* The text file n.fzpz handed to import_fzp_from_zip.
C7_Witness ==
    /\ pc = "done"
    /\ ret.op = "import_fzp_from_zip"
    /\ arg.path = NotArchive
    /\ ret.raised = Some("Not a zip archive")
    /\ fs.temp = <<>>
    /\ scene = UserScene

\* C8: every run of execute ends with exactly one reported status: INFO with
\* FINISHED when the import raised nothing, ERROR carrying the message with
\* CANCELLED when it raised, WARNING with CANCELLED for an unsupported
\* extension; for a non-zip .fzpz path and a nonexistent .fzp path it is the
\* ERROR and no scene object was created or changed. Nothing is reported
\* before the run or by the import functions themselves.
C8_OneStatusPerRun ==
    /\ (pc = "call" \/ ret.op # "execute") => reports = <<>>
    /\ (pc = "done" /\ ret.op = "execute")
        => /\ Len(reports) = 1
           /\ arg.path = TextFile
                => /\ reports[1].level = "WARNING"
                   /\ ret.value = "CANCELLED"
           /\ (arg.path # TextFile /\ IsNone(ret.raised))
                => /\ reports[1].level = "INFO"
                   /\ ret.value = "FINISHED"
           /\ ~IsNone(ret.raised)
                => /\ reports[1] = [level |-> "ERROR",
                                    message |-> ret.raised[1]]
                   /\ ret.value = "CANCELLED"
           /\ arg.path \in {NotArchive, NotArchiveUpper, MissingFile}
                => /\ ~IsNone(ret.raised)
                   /\ scene = UserScene

\* execute on the .fzp path that does not exist.
C8_Witness ==
    /\ pc = "done"
    /\ ret.op = "execute"
    /\ arg.path = MissingFile
    /\ reports = <<[level |-> "ERROR", message |-> "File not found"]>>
    /\ ret.value = "CANCELLED"
    /\ scene = UserScene

\* The entries of the archive whose names end with one of the extensions,
\* in archive order, and the objects their contents import.
EntriesMatching(extensions) ==
    SelectSeq(FileAt(fs, arg.path).entries,
              LAMBDA e : \E i \in 1..Len(extensions) :
                            EndsWith(Lower(e.name), extensions[i]))

RECURSIVE ObjectsIn(_)
ObjectsIn(entries) ==
    IF entries = <<>> THEN 0
    ELSE Head(entries).data.objs + ObjectsIn(Tail(entries))

ImportedOfType(type) ==
    Len(SelectSeq(scene.objects,
                  LAMBDA o : o.kind = "import" /\ o.type = type))

\* C18: extract_files_by_extensions returns, for every archive entry whose
\* name matches a requested extension, a location that holds that entry's
\* content, and different entries get different locations, also when they
\* share a basename in different archive directories; so
\* import_fzp_from_zip imports every such entry from its own content.
C18_EachEntryItsOwnLocation ==
    /\ (pc = "done" /\ ret.op = "extract_files_by_extensions")
         => /\ ret.raised = None
            /\ \E extensions \in {<<ExtObj, ExtStl>>, <<ExtSvg>>} :
                  LET es == EntriesMatching(extensions)
                  IN  /\ Len(ret.value) = Len(es)
                      /\ \A i \in 1..Len(es) :
                            /\ HasKey(ret.value, es[i].name)
                            /\ ReadTemp(fs, DictGet(ret.value, es[i].name))
                                  = es[i].data
                      /\ \A i, j \in 1..Len(es) :
                            i # j => DictGet(ret.value, es[i].name)
                                        # DictGet(ret.value, es[j].name)
    /\ (pc = "done" /\ ret.op = "import_fzp_from_zip")
         => /\ ret.raised = None
            /\ ImportedOfType("MESH")
                  = ObjectsIn(EntriesMatching(<<ExtObj, ExtStl>>))
            /\ ImportedOfType("CURVE") = ObjectsIn(EntriesMatching(<<ExtSvg>>))

\* The file system before the call: the operations add scratch directories
\* and nothing else.
FilesAtCall == [fs EXCEPT !.temp = <<>>]

\* The outcome of the other import function on the same part, from the
\* state the call was made in.
OtherImport ==
    IF ret.op = "import_fzp_from_zip"
    THEN import_fzp_file(FilesAtCall, UserScene, PartFile, arg.opts, arg.host)
    ELSE import_fzp_from_zip(FilesAtCall, UserScene, PartArchive, arg.opts,
                             arg.host)

\* The location and rotation of the instances of a flat list, in its order.
Placements(value, sc) ==
    IF value = <<>> THEN <<>>
    ELSE [i \in 1..Len(value[1]) |->
            [loc |-> ObjectOf(sc, value[1][i]).loc,
             rot |-> ObjectOf(sc, value[1][i]).rot]]

\* The file reference of a module.
Referenced(module) == Or(Get(module, "file"), Get(module, "url"))

\* Every module of the part refers to a file that is in the archive under
\* that name and in the directory of the descriptor file, and different
\* references have different basenames.
EveryReferenceResolves ==
    /\ Descriptor[1].tag = "part"
    /\ \A i \in 1..Len(ModulesOfPart) :
          LET ref == Referenced(ModulesOfPart[i])
          IN  /\ Truthy(ref)
              /\ Exists(fs, Join(DirName(PartFile), ref[1]))
              /\ \E k \in 1..Len(FileAt(fs, PartArchive).entries) :
                    FileAt(fs, PartArchive).entries[k].name = ref[1]
              /\ \A j \in 1..Len(ModulesOfPart) :
                    LET other == Referenced(ModulesOfPart[j])
                    IN  (Truthy(other) /\ other # ref)
                            => BaseName(other[1]) # BaseName(ref[1])

\* C20: for the same descriptor and the same geometry files, every file
\* reference resolving to an importable file with its own basename in the
\* archive and in the directory, import_fzp_from_zip and import_fzp_file
\* place the same instances: as many for each module, at the same
\* locations and rotations, in the same order of the flat list.
C20_SameInstancesFromZipAndFile ==
    (pc = "done" /\ RightFile /\ EveryReferenceResolves)
        => /\ ret.raised = None
           /\ OtherImport.raised = None
           /\ Placements(ret.value, scene)
                 = Placements(OtherImport.value, OtherImport.scene)

====
